---- MODULE Spec2Model ----
(***************************************************************************)
(* Verification model of the data-union-server core: the Member value      *)
(* object (src/src/member.js), the Merkle tree (src/src/merkletree/api.js),*)
(* the watcher (src/src/watcher.js) and the member router                  *)
(* (src/unnamed/part_000).  MonoplasmaState (./state) and the event merge  *)
(* (./utils/events) are required by the watcher but their files are not    *)
(* part of the sources at hand; they are modelled from spec.md sections    *)
(* 4.3 and 4.4.                                                            *)
(***************************************************************************)
EXTENDS Integers, Sequences, FiniteSets, TLC

VARIABLES
    plasma,         \* the MonoplasmaState under test (watcher.plasma)
    now,            \* wall clock of the operator machine
    revenueApplied, \* history: sum of the amounts of all onRevenue applied
    seeded,         \* history: sum of the earnings the State was seeded with
    lastOp,         \* history: the operation applied by the last step
    tree,           \* a MerkleTree object: contents, isDirty, cached
    ret,            \* what the last MerkleTree / Member.getProof call returned
    chain,          \* the blocks of the root chain, with their logs
    channel,        \* the join/part stream: messages published and delivered
    watcher,        \* the MonoplasmaWatcher object and the position of start()
    applied,        \* history: the items applied to the real-time State
    store,          \* the file store: the saved state and the saved blocks
    finalPlasma     \* a second State that playback is requested on

vars == <<plasma, now, revenueApplied, seeded, lastOp, tree, ret,
          chain, channel, watcher, applied, store, finalPlasma>>

----------------------------------------------------------------------------
(* Bounds of the model *)

NumAddresses == 2
MaxAmount == 3
MaxRevenue == 3
MaxBlocks == 1
MaxCommits == 2
MaxTime == 3
MaxFreeze == 1
MaxMembers == 5
MaxBuilds == 2
MaxHead == 2
MaxMessages == 2
MaxLogs == 2
MaxPending == 2
MaxEvents == 4

(* adminFee is a fixed-point fraction (formatEther, 1e18); the scale is     *)
(* reduced here because TLC's integers are 32 bits wide.                    *)
FeeScale == 4

Addresses == 1..NumAddresses
Amounts == 0..MaxAmount
Fractions == {0, 1, FeeScale \div 2, FeeScale}

----------------------------------------------------------------------------
(* Generic helpers *)

RECURSIVE SumSeq(_)
SumSeq(s) == IF s = <<>> THEN 0 ELSE Head(s) + SumSeq(Tail(s))

Map(s, F(_)) == [i \in 1..Len(s) |-> F(s[i])]

SelectIndices(s, P(_)) == {i \in 1..Len(s) : P(s[i])}

----------------------------------------------------------------------------
(* member.js *)

(* BN.toString(10): the decimal digits, most significant first *)
RECURSIVE toString10(_)
toString10(n) ==
    IF n < 10 THEN <<n>> ELSE Append(toString10(n \div 10), n % 10)

(* new BN(decimal string) *)
RECURSIVE parseBN(_)
parseBN(digits) ==
    IF digits = <<>> THEN 0
    ELSE parseBN(SubSeq(digits, 1, Len(digits) - 1)) * 10 + digits[Len(digits)]

(* An address string is coded as a number: the spellings of address id are *)
(* id + NumAddresses * v, where v = 0, 1, 2 are the checksummed, the lower *)
(* case and the upper case spelling with the 0x prefix (42 characters) and *)
(* v = 3, 4, 5 the same without the prefix (40 characters).  An address    *)
(* written 1..NumAddresses is thus checksummed and prefixed.                *)
Spellings == 1..(6 * NumAddresses)

Casing(casing) == IF casing = "checksum" THEN 0 ELSE IF casing = "lower" THEN 1 ELSE 2

Spelled(id, casing, prefixed) ==
    id + NumAddresses * (Casing(casing) + IF prefixed THEN 0 ELSE 3)

idOf(address) == ((address - 1) % NumAddresses) + 1

hasPrefix(address) == (address - 1) \div NumAddresses < 3

(* validateAddress(address): 0x is put before a string of 40 characters;   *)
(* isAddress accepts the three spellings and the letter case stays as it   *)
(* was written                                                              *)
validateAddress(address) ==
    IF address \in Spellings /\ ~hasPrefix(address)
    THEN address - 3 * NumAddresses
    ELSE address

(* ethers.utils.getAddress(address): the checksummed spelling with prefix *)
getAddress(address) == IF address \in Spellings THEN idOf(address) ELSE address

(* new MonoplasmaMember(name, address, earnings, active) *)
MonoplasmaMember(address, earnings, active) ==
    [address |-> validateAddress(address), earnings |-> earnings, active |-> active]

addRevenueNoop(m, amount) == m

addRevenueSub(m, amount) == [m EXCEPT !.earnings = @ - amount]

addRevenue(m, amount) == [m EXCEPT !.earnings = @ + amount]

isActive(m) == m.active

setActiveStuck(m, activeState) == m

setActive(m, activeState) == [m EXCEPT !.active = activeState]

toObjectNoEarnings(m) ==
    [address |-> m.address, earnings |-> toString10(0), active |-> m.active]

toObject(m) ==
    [address |-> m.address, earnings |-> toString10(m.earnings), active |-> m.active]

fromObjectFlagRequired(obj) ==
    MonoplasmaMember(obj.address,
                     IF "earnings" \in DOMAIN obj THEN parseBN(obj.earnings) ELSE 0,
                     "active" \in DOMAIN obj /\ obj.active)

(* the constructor's defaults: no earnings are 0, no active flag is active *)
fromObject(obj) ==
    MonoplasmaMember(obj.address,
                     IF "earnings" \in DOMAIN obj THEN parseBN(obj.earnings) ELSE 0,
                     IF "active" \in DOMAIN obj THEN obj.active ELSE TRUE)

----------------------------------------------------------------------------
(* merkletree/api.js *)

(* Digests are numbers: 0 is Buffer.alloc(32), keccak256 never yields it.   *)
(* An empty slot of the hashes array (undefined) is Undefined.              *)
Zero == 0
Undefined == 0 - 1

(* the digest state after absorbing the symbols data[lo..hi], each symbol  *)
(* weighted by its position                                                 *)
RECURSIVE absorb(_, _, _)
absorb(data, lo, hi) ==
    IF lo > hi THEN 0
    ELSE IF lo = hi THEN ((data[lo] + 1) * (lo * lo + 3 * lo + 1)) % 10006
    ELSE (absorb(data, lo, (lo + hi) \div 2) + absorb(data, (lo + hi) \div 2 + 1, hi)) % 10006

squeeze(state) == 1 + ((state * state + 31 * state + 17) % 10006)

digest(data) == squeeze((absorb(data, 1, Len(data)) + 7 * Len(data)) % 10006)

(* keccak256 of a byte string, given as the sequence of its symbols (the   *)
(* singleton set makes TLC evaluate the argument once)                      *)
hash(data) == CHOOSE d \in {digest(bytes) : bytes \in {data}} : TRUE

RECURSIVE hexDigits(_)
hexDigits(n) == IF n < 16 THEN <<n>> ELSE Append(hexDigits(n \div 16), n % 16)

(* BN.toString(16, padding): hex digits, zero-padded on the left *)
toString16(n, padding) ==
    LET digits == hexDigits(n)
    IN  IF Len(digits) >= padding THEN digits
        ELSE [i \in 1..(padding - Len(digits)) |-> 0] \o digits

(* blockNumber + member.address + earnings as 64 hex digits; the address    *)
(* is one symbol, offset so that it differs from the hex digits             *)
hashLeaf(member, blockNumber) ==
    hash(blockNumber \o <<100 + member.address>> \o toString16(member.earnings, 64))

hashCombined(data1, data2) == hash(<<data1, data2>>)

(* Buffer.compare *)
compare(buf1, buf2) == IF buf1 < buf2 THEN 0 - 1 ELSE IF buf1 > buf2 THEN 1 ELSE 0

(* A JavaScript number that may exceed 31 bits is held as two limbs of 16  *)
(* bits, <<hi, lo>> standing for hi * 2^16 + lo with lo in 0..2^16 - 1.    *)
Limb == 65536

Wide(n) == <<n \div Limb, n % Limb>>

Number(w) == w[1] * Limb + w[2]

Less(a, b) == a[1] < b[1] \/ (a[1] = b[1] /\ a[2] < b[2])

(* ToInt32: the low 32 bits, read as a signed integer *)
ToInt32(w) == <<((w[1] + Limb \div 2) % Limb) - Limb \div 2, w[2]>>

(* i << 1: a shift of the 32-bit integer, with a 32-bit signed result *)
ShiftLeft1(i) ==
    LET w == ToInt32(i)
    IN  ToInt32(<<2 * w[1] + (2 * w[2]) \div Limb, (2 * w[2]) % Limb>>)

(* Math.pow(2, 32) *)
MAX_POW_2 == <<Limb, 0>>

(* how a call ends: it returns a value, throws, or never returns *)
Returned(value) == [ok |-> TRUE, error |-> "", value |-> value]

Threw(error) == [ok |-> FALSE, error |-> error, value |-> <<0, 0>>]

NeverReturns == Threw("never returns")

(* while (i < x) { i <<= 1 }: the loop has no other state than i, so it    *)
(* never ends once a shift leaves i as it was while i < x                   *)
RECURSIVE pow2Loop(_, _)
pow2Loop(i, x) ==
    IF Less(i, x)
    THEN IF ShiftLeft1(i) = i THEN NeverReturns ELSE pow2Loop(ShiftLeft1(i), x)
    ELSE Returned(i)

(* a power of two that is never below 4 *)
roundUpToPowerOfTwoFrom4(x) == pow2Loop(Wide(4), x)

roundUpToPowerOfTwo(x) ==
    IF Less(MAX_POW_2, x) THEN Threw("Number too big") ELSE pow2Loop(Wide(1), x)

At(hashes, i) == IF i \in DOMAIN hashes THEN hashes[i] ELSE Undefined

Put(hashes, i, value) == (i :> value) @@ hashes

branchHashUnsorted(hash1, hash2) == hashCombined(hash1, hash2)

branchHash(hash1, hash2) ==
    IF compare(hash1, hash2) = 0 - 1
    THEN hashCombined(hash1, hash2)
    ELSE hashCombined(hash2, hash1)

oddNodeNoZero(hashes, sourceI, targetI) == Put(hashes, targetI, At(hashes, sourceI))

oddNodeHashed(hashes, sourceI, targetI) ==
    Put(Put(hashes, sourceI + 1, Zero), targetI, branchHash(At(hashes, sourceI), Zero))

(* odd node in the end: a zero beside it, and the node itself as parent *)
oddNode(hashes, sourceI, targetI) ==
    Put(Put(hashes, sourceI + 1, Zero), targetI, At(hashes, sourceI))

(* the inner while loop: one level of the tree (the singleton sets make    *)
(* TLC evaluate the array once per iteration)                               *)
RECURSIVE levelLoop(_, _, _, _)
levelLoop(hashes, sourceI, targetI, endI) ==
    IF sourceI >= endI THEN hashes
    ELSE LET hash1 == At(hashes, sourceI)
             hash2 == At(hashes, sourceI + 1)
         IN  IF hash1 = Undefined THEN hashes
             ELSE IF hash2 = Undefined
                  THEN oddNode(hashes, sourceI, targetI)
                  ELSE CHOOSE r \in {levelLoop(next, sourceI + 2, targetI + 1, endI) :
                                        next \in {Put(hashes, targetI, branchHash(hash1, hash2))}} : TRUE

(* the outer for loop: levels from the leaves to the root *)
RECURSIVE treeLoop(_, _, _)
treeLoop(hashes, startI, endI) ==
    IF startI <= 1 THEN hashes
    ELSE CHOOSE r \in {treeLoop(next, startI \div 2, startI) :
                          next \in {levelLoop(hashes, startI, startI \div 2, endI)}} : TRUE

buildMerkleTree(leafContents) ==
    LET leafCount == Len(leafContents) + (Len(leafContents) % 2)
        branchCount == Number(roundUpToPowerOfTwo(Wide(leafCount)).value)
        treeSize == branchCount + leafCount
        leaves == [i \in 0..(treeSize - 1) |->
                     IF i = 0 THEN branchCount
                     ELSE IF i >= branchCount /\ i - branchCount < Len(leafContents)
                          THEN hashLeaf(leafContents[i - branchCount + 1], <<>>)
                          ELSE Undefined]
        addresses == {leafContents[k].address : k \in 1..Len(leafContents)}
        indexOf == [a \in addresses |->
                      branchCount - 1 +
                        CHOOSE k \in 1..Len(leafContents) :
                           /\ leafContents[k].address = a
                           /\ \A l \in 1..Len(leafContents) :
                                 leafContents[l].address = a => l <= k]
    IN  [hashes |-> CHOOSE r \in {treeLoop(h, branchCount, treeSize) : h \in {leaves}} : TRUE,
         indexOf |-> indexOf]

(* Array.length is at most 2^32 - 1 *)
MaxArrayLength == <<Limb - 1, Limb - 1>>

Add(a, b) == <<a[1] + b[1] + (a[2] + b[2]) \div Limb, (a[2] + b[2]) % Limb>>

(* the head of buildMerkleTree, which depends on leafContents.length only: *)
(* leafCount, branchCount, treeSize and new Array(treeSize)                 *)
buildMerkleTreeSized(length) ==
    LET leafCount == Add(length, Wide(length[2] % 2))
        branchCount == roundUpToPowerOfTwo(leafCount)
    IN  IF ~branchCount.ok THEN branchCount
        ELSE IF Less(MaxArrayLength, Add(branchCount.value, leafCount))
             THEN Threw("RangeError")
             ELSE Returned(branchCount.value)

NoTree == [hashes |-> <<>>, indexOf |-> <<>>]

(* new MerkleTree(initialContents) and update(newContents) *)
updateKeepsCache(t, newContents) == [t EXCEPT !.contents = newContents]

update(t, newContents) == [t EXCEPT !.isDirty = TRUE, !.contents = newContents]

MerkleTree(initialContents) ==
    update([contents |-> <<>>, isDirty |-> TRUE, cached |-> NoTree, builds |-> 0],
           initialContents)

(* getContents: the tree after the call, and whether the call threw *)
getContentsStaysDirty(t) ==
    IF Len(t.contents) = 0 THEN [tree |-> t, ok |-> FALSE]
    ELSE IF t.isDirty
         THEN [tree |-> [t EXCEPT !.cached = buildMerkleTree(t.contents),
                                  !.builds = @ + 1],
               ok |-> TRUE]
         ELSE [tree |-> t, ok |-> TRUE]

getContents(t) ==
    IF Len(t.contents) = 0 THEN [tree |-> t, ok |-> FALSE]
    ELSE IF t.isDirty
         THEN [tree |-> [t EXCEPT !.cached = buildMerkleTree(t.contents),
                                  !.isDirty = FALSE,
                                  !.builds = @ + 1],
               ok |-> TRUE]
         ELSE [tree |-> t, ok |-> TRUE]

(* `0x${buffer.toString("hex")}` and its reading back as bytes32 *)
toHex(buffer) == <<"0x", buffer>>

fromHex(string) == string[2]

RECURSIVE pathLoop(_, _)
pathLoop(hashes, i) ==
    IF i > 1
    THEN <<At(hashes, IF i % 2 = 0 THEN i + 1 ELSE i - 1)>> \o pathLoop(hashes, i \div 2)
    ELSE <<>>

Result(t, ok, error, value) == [tree |-> t, ok |-> ok, error |-> error, value |-> value]

pathOfEmptyPath(c, address) ==
    IF ~c.ok THEN Result(c.tree, FALSE, "empty contents", <<>>)
    ELSE IF address \notin DOMAIN c.tree.cached.indexOf
         THEN Result(c.tree, TRUE, "", <<>>)
         ELSE Result(c.tree, TRUE, "",
                     Map(pathLoop(c.tree.cached.hashes, c.tree.cached.indexOf[address]), toHex))

pathOf(c, address) ==
    IF ~c.ok THEN Result(c.tree, FALSE, "empty contents", <<>>)
    ELSE IF address \notin DOMAIN c.tree.cached.indexOf
         THEN Result(c.tree, FALSE, "not found", <<>>)
         ELSE LET path == pathLoop(c.tree.cached.hashes, c.tree.cached.indexOf[address])
              IN  IF \E k \in 1..Len(path) : path[k] = Undefined
                  THEN Result(c.tree, FALSE, "TypeError", <<>>)
                  ELSE Result(c.tree, TRUE, "", Map(path, toHex))

getPath(t, address) == CHOOSE r \in {pathOf(c, address) : c \in {getContents(t)}} : TRUE

rootOfZero(c) ==
    IF ~c.ok THEN Result(c.tree, TRUE, "", <<toHex(Zero)>>)
    ELSE Result(c.tree, TRUE, "", <<toHex(c.tree.cached.hashes[1])>>)

rootOf(c) ==
    IF ~c.ok THEN Result(c.tree, FALSE, "empty contents", <<>>)
    ELSE Result(c.tree, TRUE, "", <<toHex(c.tree.cached.hashes[1])>>)

getRootHash(t) == CHOOSE r \in {rootOf(c) : c \in {getContents(t)}} : TRUE

(* member.js getProof *)
getProofAlways(member, t) == getPath(t, member.address)

getProof(member, t) ==
    IF member.earnings > 0 THEN getPath(t, member.address) ELSE Result(t, TRUE, "", <<>>)

(* The on-chain verifier (BalanceVerifier.calculateRootHash): a zero        *)
(* sibling marks an odd branch and is skipped, otherwise the pair is hashed *)
(* smaller first.                                                           *)
verifierStep(acc, other) ==
    IF other = Zero THEN acc
    ELSE IF acc < other THEN hashCombined(acc, other) ELSE hashCombined(other, acc)

RECURSIVE calculateRootHash(_, _)
calculateRootHash(acc, others) ==
    IF others = <<>> THEN acc
    ELSE CHOOSE r \in {calculateRootHash(next, Tail(others)) :
                          next \in {verifierStep(acc, fromHex(Head(others)))}} : TRUE

----------------------------------------------------------------------------
(* MonoplasmaState, modelled from spec.md 4.3 *)

MonoplasmaState(blockFreezeSeconds, initialMembers, adminFee, currentBlock, currentTimestamp) ==
    [ members |-> Map(initialMembers, fromObject),
      adminEarnings |-> 0,
      adminFeeFraction |-> adminFee,
      blockFreezeSeconds |-> blockFreezeSeconds,
      currentBlock |-> currentBlock,
      currentTimestamp |-> currentTimestamp,
      blocks |-> <<>> ]

(* two address strings that are the same address in canonical form        *)
(* (spec.md 3: every equality and lookup uses the canonical form)          *)
SameAddress(a, b) == getAddress(a) = getAddress(b)

HasMember(members, a) == \E i \in 1..Len(members) : SameAddress(members[i].address, a)

getMember(s, a) ==
    LET i == CHOOSE i \in 1..Len(s.members) : SameAddress(s.members[i].address, a)
    IN  s.members[i]

joinOne(members, a) ==
    IF HasMember(members, a)
    THEN [i \in 1..Len(members) |->
            IF SameAddress(members[i].address, a) THEN setActive(members[i], TRUE) ELSE members[i]]
    ELSE Append(members, MonoplasmaMember(a, 0, TRUE))

partOne(members, a) ==
    [i \in 1..Len(members) |->
        IF SameAddress(members[i].address, a) THEN setActive(members[i], FALSE) ELSE members[i]]

RECURSIVE joinAll(_, _)
joinAll(members, addresses) ==
    IF addresses = <<>> THEN members
    ELSE joinAll(joinOne(members, Head(addresses)), Tail(addresses))

RECURSIVE partAll(_, _)
partAll(members, addresses) ==
    IF addresses = <<>> THEN members
    ELSE partAll(partOne(members, Head(addresses)), Tail(addresses))

onJoin(s, addresses, timestamp) ==
    [s EXCEPT !.members = joinAll(@, addresses), !.currentTimestamp = timestamp]

onPart(s, addresses, timestamp) ==
    [s EXCEPT !.members = partAll(@, addresses)]

activeCountOf(members) == Cardinality(SelectIndices(members, isActive))

onRevenue(s, amount, timestamp) ==
    LET activeCount == activeCountOf(s.members)
        adminShare == (amount * s.adminFeeFraction) \div FeeScale
        remainder == amount - adminShare
        perMember == IF activeCount = 0 THEN 0 ELSE remainder \div activeCount
    IN  [s EXCEPT
            !.members = [i \in 1..Len(@) |->
                IF isActive(@[i]) THEN addRevenue(@[i], perMember) ELSE @[i]],
            !.adminEarnings = @ + (amount - perMember * activeCount)]

onAdminFeeChanged(s, newFraction, timestamp) ==
    [s EXCEPT !.adminFeeFraction = newFraction]

getTotalRevenue(s) ==
    SumSeq(Map(s.members, LAMBDA m : m.earnings)) + s.adminEarnings

onBlockCreated(s, blockNumber, timestamp) ==
    [s EXCEPT !.blocks = Append(@,
        [ blockNumber |-> blockNumber,
          timestamp |-> timestamp,
          members |-> Map(s.members, toObject),
          totalEarnings |-> getTotalRevenue(s) ])]

(* null, as summarizeBlock and blockToApiObject render it *)
NoBlock == [blockNumber |-> 0, timestamp |-> 0, members |-> <<>>, totalEarnings |-> 0]

getLatestBlock(s) ==
    IF s.blocks = <<>> THEN NoBlock ELSE s.blocks[Len(s.blocks)]

getLatestWithdrawableBlockInclusive(s, t) ==
    LET old == {i \in 1..Len(s.blocks) : s.blocks[i].timestamp <= t - s.blockFreezeSeconds}
    IN  IF old = {} THEN NoBlock
        ELSE s.blocks[CHOOSE i \in old : \A j \in old : j <= i]

getLatestWithdrawableBlock(s, t) ==
    LET old == {i \in 1..Len(s.blocks) : s.blocks[i].timestamp < t - s.blockFreezeSeconds}
    IN  IF old = {} THEN NoBlock
        ELSE s.blocks[CHOOSE i \in old : \A j \in old : j <= i]

getMemberCount(s) ==
    [active |-> activeCountOf(s.members), total |-> Len(s.members)]

----------------------------------------------------------------------------
(* The event merge (./utils/events), modelled from spec.md 4.4, and the    *)
(* cache bisection (./utils/bisectFindFirstIndex).                          *)

(* a log of the chain as getLogs and parseLogs deliver it *)
Event(name, blockNumber, transactionIndex, logIndex, args) ==
    [ event |-> name,
      blockNumber |-> blockNumber,
      transactionIndex |-> transactionIndex,
      logIndex |-> logIndex,
      args |-> args,
      timestamp |-> Undefined ]

(* a join or part message of the channel, as the message handlers build it *)
Message(type, addressList, timestamp) ==
    [ type |-> type, addressList |-> addressList, timestamp |-> timestamp ]

(* (blockNumber, transactionIndex, logIndex) of e1 is not after that of e2 *)
historyNotAfter(e1, e2) ==
    \/ e1.blockNumber < e2.blockNumber
    \/ /\ e1.blockNumber = e2.blockNumber
       /\ \/ e1.transactionIndex < e2.transactionIndex
          \/ /\ e1.transactionIndex = e2.transactionIndex
             /\ e1.logIndex <= e2.logIndex

RECURSIVE mergeEventLists(_, _)
mergeEventLists(events1, events2) ==
    IF events1 = <<>> THEN events2
    ELSE IF events2 = <<>> THEN events1
    ELSE IF historyNotAfter(Head(events1), Head(events2))
         THEN <<Head(events1)>> \o mergeEventLists(Tail(events1), events2)
         ELSE <<Head(events2)>> \o mergeEventLists(events1, Tail(events2))

(* chain events and channel messages in one stream: by timestamp, the      *)
(* chain event first where the timestamps are equal                         *)
RECURSIVE mergeByTimestamp(_, _)
mergeByTimestamp(events, messages) ==
    IF events = <<>> THEN messages
    ELSE IF messages = <<>> THEN events
    ELSE IF Head(events).timestamp <= Head(messages).timestamp
         THEN <<Head(events)>> \o mergeByTimestamp(Tail(events), messages)
         ELSE <<Head(messages)>> \o mergeByTimestamp(events, Tail(messages))

IsMessage(item) == "type" \in DOMAIN item

(* one item of the stream applied to a State *)
replayEvent(s, item) ==
    IF IsMessage(item)
    THEN IF item.type = "join" THEN onJoin(s, item.addressList, item.timestamp)
         ELSE IF item.type = "part" THEN onPart(s, item.addressList, item.timestamp)
         ELSE s
    ELSE IF item.event = "Transfer" THEN onRevenue(s, item.args, item.timestamp)
         ELSE IF item.event = "AdminFeeChanged" THEN onAdminFeeChanged(s, item.args, item.timestamp)
         ELSE IF item.event = "BlockCreated" THEN onBlockCreated(s, item.args, item.timestamp)
         ELSE s

RECURSIVE replayAll(_, _)
replayAll(s, items) ==
    IF items = <<>> THEN s ELSE replayAll(replayEvent(s, Head(items)), Tail(items))

replayOn(s, events, messages) == replayAll(s, mergeByTimestamp(events, messages))

(* the first index (0-based) of a sorted list at which the condition holds, *)
(* its length if there is none: bisection.  The watcher's conditions are   *)
(* all of the form msg.timestamp > after.                                   *)
RECURSIVE bisect(_, _, _, _)
bisect(list, after, low, high) ==
    IF low >= high THEN low
    ELSE LET middle == (low + high) \div 2
         IN  IF list[middle + 1].timestamp > after
             THEN bisect(list, after, low, middle)
             ELSE bisect(list, after, middle + 1, high)

bisectFindFirstIndex(list, after) == bisect(list, after, 0, Len(list))

(* Array.slice(from, to) with 0-based indices *)
slice(list, from, to) == SubSeq(list, from + 1, to)

----------------------------------------------------------------------------
(* watcher.js: MonoplasmaWatcher.  The chain is the sequence of its blocks *)
(* (block n at index n), each with its timestamp in seconds and its logs;  *)
(* the channel is the sequence of the messages published so far and the    *)
(* number of them delivered to the watcher.                                 *)

Millis == 1000

Block(timestamp, logs) == [timestamp |-> timestamp, logs |-> logs]

getBlockTimestamp(blocks, blockNumber) == blocks[blockNumber].timestamp * Millis

(* eth.getLogs with an event filter and an inclusive block range *)
RECURSIVE getLogs(_, _, _, _)
getLogs(blocks, name, fromBlock, toBlock) ==
    IF fromBlock > toBlock THEN <<>>
    ELSE SelectSeq(blocks[fromBlock].logs, LAMBDA e : e.event = name)
            \o getLogs(blocks, name, fromBlock + 1, toBlock)

playbackEventsConcat(adminFeeEvents, blockCreateEvents, transferEvents) ==
    adminFeeEvents \o blockCreateEvents \o transferEvents

playbackEvents(adminFeeEvents, blockCreateEvents, transferEvents) ==
    mergeEventLists(mergeEventLists(adminFeeEvents, blockCreateEvents), transferEvents)

withTimestamps(blocks, events) ==
    [i \in 1..Len(events) |->
        [events[i] EXCEPT !.timestamp = getBlockTimestamp(blocks, events[i].blockNumber)]]

(* The store (store.loadState, store.loadBlock) and the contract the       *)
(* watcher reads its configuration from.  An object of the store is a      *)
(* record that holds only the fields that were saved.                       *)

EmptyObject == [x \in {} |-> x]

Has(obj, field) == field \in DOMAIN obj

(* Object.assign(target, source): the fields of source win *)
assign(target, source) == source @@ target

NoStore == [state |-> EmptyObject, blocks |-> EmptyObject]

loadState(st) == st.state

(* store.loadBlock(blockNumber): the block, or the rejection *)
loadBlock(st, blockNumber) ==
    IF blockNumber \in DOMAIN st.blocks
    THEN [ok |-> TRUE, block |-> st.blocks[blockNumber]]
    ELSE [ok |-> FALSE, block |-> NoBlock]

(* token(), owner() and blockFreezeSeconds() of the deployed contract *)
Contract == [token |-> 1, owner |-> 1, blockFreezeSeconds |-> 1]

(* start(): this.state, from the defaults, the saved state and the config, *)
(* then overwritten with what the contract returns                          *)
startState(st, config) ==
    assign(assign(assign([adminFee |-> 0],
                         IF config.reset THEN EmptyObject ELSE loadState(st)),
                  config),
           [ tokenAddress |-> Contract.token,
             adminAddress |-> Contract.owner,
             blockFreezeSeconds |-> Contract.blockFreezeSeconds ])

(* a block number of the saved state: a number, or a BigNumber that was    *)
(* serialized as { _hex }                                                   *)
SavedNumber(n) == [number |-> n]

SavedBigNumber(n) == [_hex |-> n]

(* this.state.lastPublishedBlock && this.state.lastPublishedBlock.blockNumber, *)
(* a serialized BigNumber read back with Number.parseInt                    *)
lastPublishedBlockNumber(state) ==
    IF ~Has(state, "lastPublishedBlock") THEN Undefined
    ELSE IF Has(state.lastPublishedBlock.blockNumber, "_hex")
         THEN state.lastPublishedBlock.blockNumber._hex
         ELSE state.lastPublishedBlock.blockNumber.number

(* start(): the block the State is seeded with *)
startBlock(st, state) ==
    LET number == lastPublishedBlockNumber(state)
    IN  IF number = Undefined \/ number = 0
        THEN [ok |-> TRUE, block |-> NoBlock]
        ELSE loadBlock(st, number)

(* new MonoplasmaWatcher(eth, joinPartChannel, store) *)
MonoplasmaWatcher ==
    [ pc |-> "constructed",
      messageCache |-> <<>>,
      cachePrunedUpTo |-> 0,
      toBlock |-> 0,
      liveBlock |-> 0,
      lastPublishedBlock |-> Undefined,
      state |-> EmptyObject,
      pending |-> <<>> ]

Played(s, items, outcome, error, lastPublishedBlock) ==
    [ plasma |-> s, items |-> items, outcome |-> outcome, error |-> error,
      lastPublishedBlock |-> lastPublishedBlock ]

(* what `throw new Error(`Cache has been pruned ... ${toTimestamp}`)` raises: *)
(* the message reads toTimestamp, a const declared on the line after the   *)
(* throw, so evaluating the message raises a ReferenceError and the Error  *)
(* is never constructed                                                     *)
CachePrunedError == "ReferenceError"

(* the RPC calls of playbackUntilBlock that come before the timestamps of   *)
(* the events are read: getBlock(toBlock) and three getLogs                 *)
CallsBeforeTimestamps == 4

(* the State that a playback leaves when the RPC call that reads the       *)
(* timestamp of an event rejects: replayOn has not been reached             *)
rejectedReplayed(s, replayed) == replayed

rejected(s, replayed) == s

(* playbackUntilBlock(toBlock, plasma) in which the RPC call number        *)
(* `failing` rejects (0: none does).  The calls are awaited in this order: *)
(* 1 getBlock(toBlock), 2-4 getLogs of the three filters, then one         *)
(* getBlock for each event; a timestamp found in blockTimestampCache makes *)
(* no call, which only takes calls away.  No call is made again.           *)
playbackUntilBlockRpc(w, s, blocks, toBlock, failing) ==
    LET fromBlock == IF s.currentBlock + 1 = 0 THEN 0 ELSE s.currentBlock + 1
        fromTimestamp == s.currentTimestamp
    IN  IF toBlock <= fromBlock THEN Played(s, <<>>, "skipped", "", Undefined)
        ELSE IF fromTimestamp < w.cachePrunedUpTo THEN Played(s, <<>>, "threw", CachePrunedError, Undefined)
        ELSE IF failing \in 1..CallsBeforeTimestamps THEN Played(s, <<>>, "threw", "RpcError", Undefined)
        ELSE
          LET toTimestamp == getBlockTimestamp(blocks, toBlock)
              adminFeeEvents == getLogs(blocks, "AdminFeeChanged", fromBlock, toBlock)
              blockCreateEvents == getLogs(blocks, "BlockCreated", fromBlock, toBlock)
              transferEvents == getLogs(blocks, "Transfer", fromBlock, toBlock)
              events == withTimestamps(blocks,
                            playbackEvents(adminFeeEvents, blockCreateEvents, transferEvents))
              fromIndex == bisectFindFirstIndex(w.messageCache, fromTimestamp)
              toIndex == bisectFindFirstIndex(w.messageCache, toTimestamp)
              messages == slice(w.messageCache, fromIndex, toIndex)
          IN  IF failing \in (CallsBeforeTimestamps + 1)..(CallsBeforeTimestamps + Len(events))
              THEN Played(rejected(s, replayOn(s, events, messages)),
                          <<>>, "threw", "RpcError", Undefined)
              ELSE Played([replayOn(s, events, messages) EXCEPT
                              !.currentBlock = toBlock,
                              !.currentTimestamp = toTimestamp],
                          mergeByTimestamp(events, messages),
                          "played", "",
                          IF blockCreateEvents # <<>>
                          THEN blockCreateEvents[Len(blockCreateEvents)].args
                          ELSE 0)

(* playbackUntilBlock(toBlock, plasma), every RPC call resolving *)
playbackUntilBlock(w, s, blocks, toBlock) == playbackUntilBlockRpc(w, s, blocks, toBlock, 0)

(* channelPruneCache *)
channelPruneCache(w, s) ==
    LET lastRemovedTimestamp == s.currentTimestamp
        keepIndex == bisectFindFirstIndex(w.messageCache, lastRemovedTimestamp)
    IN  [w EXCEPT !.messageCache = slice(@, keepIndex, Len(@)),
                  !.cachePrunedUpTo = lastRemovedTimestamp]

(* a live handler: await replayOn(this.plasma, [event]) *)
liveReplayNone(s, event) == s

liveReplay(s, event) == replayOn(s, <<event>>, <<>>)

(* the history of what was applied to the real-time State: where each item *)
(* came from and the timestamp it carries (a chain event: that of its      *)
(* block)                                                                   *)
Stamp(blocks, item) ==
    IF IsMessage(item)
    THEN [source |-> "channel", timestamp |-> item.timestamp, item |-> item]
    ELSE [source |-> "chain",
          timestamp |-> getBlockTimestamp(blocks, item.blockNumber),
          item |-> item]

NoChannel == [stream |-> <<>>, delivered |-> 0]

(* no chain, no channel traffic and a watcher that is never started *)
NoWatcher ==
    /\ chain = <<>>
    /\ channel = NoChannel
    /\ watcher = MonoplasmaWatcher
    /\ applied = <<>>
    /\ store = NoStore
    /\ finalPlasma = MonoplasmaState(1, <<>>, 0, 0, 0)

----------------------------------------------------------------------------
(* The State engine driven directly: SpecState *)

AddressLists ==
    {<<a>> : a \in Addresses} \cup {<<1, a>> : a \in Addresses \ {1}}

SeedLists ==
    {<<>>} \cup {<<toObject(MonoplasmaMember(1, 2, TRUE))>>}

NoMember == MonoplasmaMember(0, 0, FALSE)

Call(op, member, result) ==
    [op |-> op, member |-> member, ok |-> result.ok, error |-> result.error,
     value |-> result.value]

NoCall == Call("none", NoMember, Result(<<>>, TRUE, "", <<>>))

Op(name, addresses, amount) ==
    [op |-> name, addresses |-> addresses, amount |-> amount]

InitState ==
    /\ \E seed \in SeedLists :
          /\ plasma = MonoplasmaState(1, seed, 0, 0, 0)
          /\ seeded = SumSeq(Map(seed, LAMBDA o : parseBN(o.earnings)))
    /\ now = 0
    /\ revenueApplied = 0
    /\ lastOp = Op("init", <<>>, 0)
    /\ tree = MerkleTree(<<>>)
    /\ ret = NoCall
    /\ NoWatcher

JoinFrom(lists) ==
    \E addresses \in lists :
        /\ plasma' = onJoin(plasma, addresses, now)
        /\ lastOp' = Op("join", addresses, 0)
        /\ UNCHANGED <<now, revenueApplied, seeded, tree, ret, chain, channel, watcher, applied, store, finalPlasma>>

PartFrom(lists) ==
    \E addresses \in lists :
        /\ plasma' = onPart(plasma, addresses, now)
        /\ lastOp' = Op("part", addresses, 0)
        /\ UNCHANGED <<now, revenueApplied, seeded, tree, ret, chain, channel, watcher, applied, store, finalPlasma>>

Join == JoinFrom(AddressLists)

Part == PartFrom(AddressLists)

Revenue ==
    \E amount \in Amounts :
        /\ revenueApplied + amount <= MaxRevenue
        /\ plasma' = onRevenue(plasma, amount, now)
        /\ revenueApplied' = revenueApplied + amount
        /\ lastOp' = Op("revenue", <<>>, amount)
        /\ UNCHANGED <<now, seeded, tree, ret, chain, channel, watcher, applied, store, finalPlasma>>

AdminFeeChanged ==
    \E fraction \in Fractions :
        /\ plasma' = onAdminFeeChanged(plasma, fraction, now)
        /\ lastOp' = Op("adminFee", <<>>, fraction)
        /\ UNCHANGED <<now, revenueApplied, seeded, tree, ret, chain, channel, watcher, applied, store, finalPlasma>>

NextState == Join \/ Part \/ Revenue \/ AdminFeeChanged

SpecState == InitState /\ [][NextState]_vars

(* Helpers of the properties *)

MemberIndex(members, a) == CHOOSE i \in 1..Len(members) : members[i].address = a

EarningsOf(members, a) ==
    IF HasMember(members, a) THEN members[MemberIndex(members, a)].earnings ELSE 0

ActiveOf(members, a) ==
    HasMember(members, a) /\ members[MemberIndex(members, a)].active

InList(a, addresses) == \E k \in 1..Len(addresses) : addresses[k] = a

(* C5: onRevenue(amount) credits the admin floor(amount * adminFeeFraction), *)
(* each active member floor(remainder / activeCount), inactive members      *)
(* nothing, and the rounding dust to the admin; with no active member the   *)
(* whole amount goes to the admin.                                          *)
C5_RevenueSplit ==
    [][ lastOp'.op = "revenue" =>
          LET amount == lastOp'.amount
              count == Cardinality({i \in 1..Len(plasma.members) : plasma.members[i].active})
              adminShare == (amount * plasma.adminFeeFraction) \div FeeScale
              remainder == amount - adminShare
              share == IF count = 0 THEN 0 ELSE remainder \div count
              dust == remainder - share * count
          IN  /\ Len(plasma'.members) = Len(plasma.members)
              /\ \A i \in 1..Len(plasma.members) :
                    /\ plasma'.members[i].address = plasma.members[i].address
                    /\ plasma'.members[i].earnings =
                          plasma.members[i].earnings +
                              (IF plasma.members[i].active THEN share ELSE 0)
              /\ plasma'.adminEarnings = plasma.adminEarnings + adminShare + dust
              /\ (count = 0 => plasma'.adminEarnings = plasma.adminEarnings + amount)
      ]_vars

(* a revenue of 3 at fee 1/FeeScale over two active members: one each, the  *)
(* dust of one to the admin                                                 *)
C5_Witness ==
    /\ lastOp = Op("revenue", <<>>, 3)
    /\ plasma.adminFeeFraction = 1
    /\ Len(plasma.members) = 2
    /\ \A i \in 1..2 : plasma.members[i].active /\ plasma.members[i].earnings = 1
    /\ plasma.adminEarnings = 1

(* C6: onPart of a known address only clears its active flag, onJoin of a   *)
(* known address only sets it, both leave every earnings alone; a revenue   *)
(* leaves the earnings of inactive members alone; onPart of unknown         *)
(* addresses changes nothing.                                               *)
C6_PartRejoinPreserve ==
    [][ /\ lastOp'.op = "part" =>
              /\ Len(plasma'.members) = Len(plasma.members)
              /\ \A i \in 1..Len(plasma.members) :
                    plasma'.members[i] =
                        IF InList(plasma.members[i].address, lastOp'.addresses)
                        THEN [plasma.members[i] EXCEPT !.active = FALSE]
                        ELSE plasma.members[i]
              /\ plasma'.adminEarnings = plasma.adminEarnings
              /\ ((\A k \in 1..Len(lastOp'.addresses) :
                        ~HasMember(plasma.members, lastOp'.addresses[k]))
                    => plasma' = plasma)
        /\ lastOp'.op = "join" =>
              /\ \A i \in 1..Len(plasma.members) :
                    plasma'.members[i] =
                        IF InList(plasma.members[i].address, lastOp'.addresses)
                        THEN [plasma.members[i] EXCEPT !.active = TRUE]
                        ELSE plasma.members[i]
              /\ plasma'.adminEarnings = plasma.adminEarnings
        /\ lastOp'.op = "revenue" =>
              \A i \in 1..Len(plasma.members) :
                  ~plasma.members[i].active => plasma'.members[i] = plasma.members[i]
      ]_vars

(* member 1 has earned, parted, and has just rejoined with its earnings *)
C6_Witness ==
    /\ lastOp = Op("join", <<1>>, 0)
    /\ ActiveOf(plasma.members, 1)
    /\ EarningsOf(plasma.members, 1) = 1
    /\ Len(plasma.members) = 1
    /\ plasma.adminFeeFraction = 0
    /\ plasma.adminEarnings = 2

----------------------------------------------------------------------------
(* The State engine with commits: SpecBlocks.  Two members join and part   *)
(* one at a time; each commit snapshots the member list.                    *)

InitBlocks ==
    /\ \E seed \in SeedLists :
          /\ plasma = MonoplasmaState(1, seed, 0, 0, 0)
          /\ seeded = SumSeq(Map(seed, LAMBDA o : parseBN(o.earnings)))
    /\ now = 0
    /\ revenueApplied = 0
    /\ lastOp = Op("init", <<>>, 0)
    /\ tree = MerkleTree(<<>>)
    /\ ret = NoCall
    /\ NoWatcher

BlockJoin == JoinFrom({<<1>>, <<2>>})

BlockPart == PartFrom({<<1>>})

BlockCreated ==
    /\ Len(plasma.blocks) < MaxBlocks
    /\ LET blockNumber == getLatestBlock(plasma).blockNumber + 1
       IN  /\ plasma' = onBlockCreated(plasma, blockNumber, now)
           /\ lastOp' = Op("block", <<>>, blockNumber)
    /\ UNCHANGED <<now, revenueApplied, seeded, tree, ret, chain, channel, watcher, applied, store, finalPlasma>>

NextBlocks ==
    BlockJoin \/ BlockPart \/ Revenue \/ AdminFeeChanged \/ BlockCreated

SpecBlocks == InitBlocks /\ [][NextBlocks]_vars

(* C1: the members' earnings plus the admin's earnings equal the sum of the *)
(* amounts of all onRevenue applied so far plus the seeded earnings.        *)
C1_RevenueConservation ==
    SumSeq([i \in 1..Len(plasma.members) |-> plasma.members[i].earnings])
        + plasma.adminEarnings = revenueApplied + seeded

(* a committed state in which revenue was split three ways with dust *)
C1_Witness ==
    /\ revenueApplied = 3
    /\ Len(plasma.blocks) = 1
    /\ plasma.adminEarnings = 1
    /\ Len(plasma.members) = 2
    /\ \A i \in 1..2 : plasma.members[i].earnings = 1

(* C2: no step of the event stream decreases the earnings of any member.    *)
C2_EarningsMonotonic ==
    [][ \A i \in 1..Len(plasma.members) :
          /\ HasMember(plasma'.members, plasma.members[i].address)
          /\ EarningsOf(plasma'.members, plasma.members[i].address)
                >= plasma.members[i].earnings
      ]_vars

C2_Witness ==
    /\ lastOp.op = "revenue"
    /\ lastOp.amount > 0
    /\ EarningsOf(plasma.members, 1) > seeded
    /\ Len(plasma.blocks) = 1

(* C8: onBlockCreated appends a Block holding the current member list and   *)
(* changes no earnings; no later step changes an already created Block.     *)
C8_BlockSnapshotImmutable ==
    [][ /\ lastOp'.op = "block" =>
              /\ plasma'.members = plasma.members
              /\ plasma'.adminEarnings = plasma.adminEarnings
              /\ Len(plasma'.blocks) = Len(plasma.blocks) + 1
              /\ LET block == plasma'.blocks[Len(plasma'.blocks)]
                 IN  /\ Len(block.members) = Len(plasma.members)
                     /\ \A i \in 1..Len(plasma.members) :
                           /\ block.members[i].address = plasma.members[i].address
                           /\ parseBN(block.members[i].earnings) = plasma.members[i].earnings
                           /\ block.members[i].active = plasma.members[i].active
        /\ Len(plasma'.blocks) >= Len(plasma.blocks)
        /\ \A k \in 1..Len(plasma.blocks) : plasma'.blocks[k] = plasma.blocks[k]
      ]_vars

(* a revenue after the commit: the State has moved on, the Block has not *)
C8_Witness ==
    /\ Len(plasma.blocks) = 1
    /\ lastOp.op = "revenue"
    /\ HasMember(plasma.members, 1)
    /\ \E i \in 1..Len(plasma.blocks[1].members) :
          /\ plasma.blocks[1].members[i].address = 1
          /\ parseBN(plasma.blocks[1].members[i].earnings) < EarningsOf(plasma.members, 1)

----------------------------------------------------------------------------
(* Commits against the operator's clock: SpecFreeze.  A member joins        *)
(* between commits so that the snapshots differ.                            *)

InitFreeze ==
    /\ \E freeze \in 0..MaxFreeze : plasma = MonoplasmaState(freeze, <<>>, 0, 0, 0)
    /\ seeded = 0
    /\ now = 0
    /\ revenueApplied = 0
    /\ lastOp = Op("init", <<>>, 0)
    /\ tree = MerkleTree(<<>>)
    /\ ret = NoCall
    /\ NoWatcher

FreezeJoin == JoinFrom({<<1>>})

Commit ==
    /\ Len(plasma.blocks) < MaxCommits
    /\ \E blockNumber \in (getLatestBlock(plasma).blockNumber + 1)..(getLatestBlock(plasma).blockNumber + 2) :
          /\ plasma' = onBlockCreated(plasma, blockNumber, now)
          /\ lastOp' = Op("block", <<>>, blockNumber)
    /\ UNCHANGED <<now, revenueApplied, seeded, tree, ret, chain, channel, watcher, applied, store, finalPlasma>>

Tick ==
    /\ now < MaxTime
    /\ now' = now + 1
    /\ lastOp' = Op("tick", <<>>, 0)
    /\ UNCHANGED <<plasma, revenueApplied, seeded, tree, ret, chain, channel, watcher, applied, store, finalPlasma>>

NextFreeze == FreezeJoin \/ Commit \/ Tick

SpecFreeze == InitFreeze /\ [][NextFreeze]_vars

OldEnough(b) == b.timestamp < now - plasma.blockFreezeSeconds

(* C7: getLatestWithdrawableBlock is the committed block of greatest block  *)
(* number among those older than now - blockFreezeSeconds, null when there  *)
(* is none; never a block inside the freeze window, never one newer than    *)
(* getLatestBlock.                                                          *)
C7_LatestWithdrawable ==
    LET w == getLatestWithdrawableBlock(plasma, now)
        committed == {plasma.blocks[i] : i \in 1..Len(plasma.blocks)}
    IN  /\ (w = NoBlock) <=> (\A b \in committed : ~OldEnough(b))
        /\ w # NoBlock =>
              /\ w \in committed
              /\ OldEnough(w)
              /\ \A b \in committed : OldEnough(b) => b.blockNumber <= w.blockNumber
              /\ w.blockNumber <= getLatestBlock(plasma).blockNumber

(* two commits, the first out of the freeze window, the second inside it *)
C7_Witness ==
    /\ Len(plasma.blocks) = 2
    /\ getLatestWithdrawableBlock(plasma, now) = plasma.blocks[1]
    /\ plasma.blocks[2].timestamp > plasma.blocks[1].timestamp
    /\ plasma.blocks[2].members # plasma.blocks[1].members

----------------------------------------------------------------------------
(* The Merkle tree driven directly: SpecMerkle.  Contents are the members  *)
(* 1..n in ascending or descending order of address, member 1 with or      *)
(* without earnings.                                                        *)

Contents(n, reversed, broke) ==
    [i \in 1..n |->
        LET a == IF reversed THEN n + 1 - i ELSE i
        IN  MonoplasmaMember(a, IF a = broke THEN 0 ELSE 3 * a + 1, TRUE)]

ContentsLists ==
    {Contents(n, reversed, broke) :
        n \in 0..MaxMembers, reversed \in BOOLEAN, broke \in 0..1}

(* the members a proof is asked for: those of the lists, and strangers *)
ProofMembers ==
    UNION {{MonoplasmaMember(a, 0, TRUE), MonoplasmaMember(a, 3 * a + 1, TRUE)} :
              a \in 1..(MaxMembers + 1)}

InitMerkle ==
    /\ plasma = MonoplasmaState(1, <<>>, 0, 0, 0)
    /\ seeded = 0
    /\ now = 0
    /\ revenueApplied = 0
    /\ lastOp = Op("init", <<>>, 0)
    /\ \E contents \in ContentsLists : tree = MerkleTree(contents)
    /\ ret = NoCall
    /\ NoWatcher

Update ==
    /\ tree.builds < MaxBuilds
    /\ \E contents \in ContentsLists : tree' = update(tree, contents)
    /\ ret' = NoCall
    /\ UNCHANGED <<plasma, now, revenueApplied, seeded, lastOp, chain, channel, watcher, applied, store, finalPlasma>>

GetRootHash ==
    /\ \E r \in {getRootHash(tree)} :
          /\ tree' = r.tree
          /\ ret' = Call("getRootHash", NoMember, r)
    /\ UNCHANGED <<plasma, now, revenueApplied, seeded, lastOp, chain, channel, watcher, applied, store, finalPlasma>>

GetPath ==
    /\ \E a \in 1..(MaxMembers + 1) :
          \E r \in {getPath(tree, a)} :
              /\ tree' = r.tree
              /\ ret' = Call("getPath", MonoplasmaMember(a, 0, TRUE), r)
    /\ UNCHANGED <<plasma, now, revenueApplied, seeded, lastOp, chain, channel, watcher, applied, store, finalPlasma>>

GetProof ==
    /\ \E member \in ProofMembers :
          \E r \in {getProof(member, tree)} :
              /\ tree' = r.tree
              /\ ret' = Call("getProof", member, r)
    /\ UNCHANGED <<plasma, now, revenueApplied, seeded, lastOp, chain, channel, watcher, applied, store, finalPlasma>>

NextMerkle == Update \/ GetRootHash \/ GetPath \/ GetProof

SpecMerkle == InitMerkle /\ [][NextMerkle]_vars

IsContent(member) == \E k \in 1..Len(tree.contents) : tree.contents[k] = member

IsLeaf(address) == \E k \in 1..Len(tree.contents) : tree.contents[k].address = address

(* the verifier step as the claim words it: every sibling is hashed in *)
HashSorted(acc, other) ==
    IF acc < other THEN hashCombined(acc, other) ELSE hashCombined(other, acc)

RECURSIVE FoldEverySibling(_, _)
FoldEverySibling(acc, others) ==
    IF others = <<>> THEN acc
    ELSE CHOOSE r \in {FoldEverySibling(next, Tail(others)) :
                          next \in {HashSorted(acc, fromHex(Head(others)))}} : TRUE

ProofReturned ==
    /\ ret.op = "getProof"
    /\ ret.ok
    /\ ret.member.earnings > 0
    /\ IsContent(ret.member)

(* C3 as stated: folding the path of a member with earnings > 0 from its    *)
(* leaf hash, hashing acc with every sibling in order, yields the root.     *)
C3_ProofSoundEverySibling ==
    ProofReturned =>
        FoldEverySibling(hashLeaf(ret.member, <<>>), ret.value) = tree.cached.hashes[1]

(* C3 amended: folding the path with the verifier step, in which a 32-byte  *)
(* zero sibling leaves acc unchanged, yields the root; every member with    *)
(* earnings > 0 gets such a path.                                           *)
C3_ProofSound ==
    /\ ProofReturned =>
          calculateRootHash(hashLeaf(ret.member, <<>>), ret.value) = tree.cached.hashes[1]
    /\ (ret.op = "getProof" /\ ret.member.earnings > 0 /\ IsContent(ret.member)) => ret.ok

(* the last of five members: two zero siblings, then a pair hash that is   *)
(* smaller than the accumulator (hashed in as the left half)                *)
C3_Witness ==
    /\ ProofReturned
    /\ Len(tree.contents) = 5
    /\ ret.member = tree.contents[5]
    /\ Len(ret.value) = 3
    /\ fromHex(ret.value[1]) = Zero
    /\ fromHex(ret.value[2]) = Zero
    /\ fromHex(ret.value[3]) # Zero

(* C4: a proof request for a member whose earnings are 0 returns the empty  *)
(* path, whether or not the address is a leaf of the tree.                  *)
C4_ZeroEarningsEmptyProof ==
    (ret.op = "getProof" /\ ret.member.earnings = 0) =>
        (ret.ok /\ ret.value = <<>>)

(* a member without earnings that is a leaf of a built tree *)
C4_Witness ==
    /\ ret.op = "getProof"
    /\ ret.member.earnings = 0
    /\ IsContent(ret.member)
    /\ Len(tree.contents) = 3
    /\ ~tree.isDirty
    /\ ret.value = <<>>

(* the same members in the opposite order *)
Reverse(s) == [i \in 1..Len(s) |-> s[Len(s) + 1 - i]]

(* C20: the root hash does not depend on the order of the contents: the     *)
(* root returned for the contents equals the root of the tree built over    *)
(* the same members in the opposite order.                                  *)
C20_RootOrderIndependent ==
    (ret.op = "getRootHash" /\ ret.ok) =>
        ret.value = getRootHash(MerkleTree(Reverse(tree.contents))).value

(* C21: on a tree whose contents are empty getRootHash and getPath fail,    *)
(* return neither a hash nor a path, and leave the tree, its cached build   *)
(* included, as it was.                                                     *)
C21_EmptyInputFails ==
    [][ (Len(tree.contents) = 0 /\ ret'.op \in {"getRootHash", "getPath"}) =>
            /\ ~ret'.ok
            /\ ret'.error = "empty contents"
            /\ ret'.value = <<>>
            /\ tree' = tree ]_vars

(* a tree that was built, then updated to empty contents: the rejected     *)
(* call has left the earlier build in the cache                             *)
C21_Witness ==
    /\ ret.op = "getPath"
    /\ ~ret.ok
    /\ ret.error = "empty contents"
    /\ Len(tree.contents) = 0
    /\ tree.isDirty
    /\ tree.builds > 0
    /\ tree.cached # NoTree

(* C22: on a tree over non-empty contents getPath fails with "not found"    *)
(* for every address that is not a leaf, and returns a path for every       *)
(* address that is a leaf.                                                  *)
C22_PathNotFound ==
    (ret.op = "getPath" /\ Len(tree.contents) > 0) =>
        IF IsLeaf(ret.member.address)
        THEN ret.ok /\ Len(ret.value) > 0
        ELSE ~ret.ok /\ ret.error = "not found" /\ ret.value = <<>>

(* an address that is no leaf of a tree of three *)
C22_Witness ==
    /\ ret.op = "getPath"
    /\ Len(tree.contents) = 3
    /\ ~IsLeaf(ret.member.address)
    /\ ret.error = "not found"

(* a node of the array that holds a hash of a leaf or of a pair *)
IsDigest(value) == value # Undefined /\ value # Zero

Smaller(hash1, hash2) == IF hash1 < hash2 THEN hash1 ELSE hash2

Larger(hash1, hash2) == IF hash1 < hash2 THEN hash2 ELSE hash1

(* the smallest power of two that is at least x, for x up to 2^5 *)
PowerOfTwoFor(x) == CHOOSE p \in {1, 2, 4, 8, 16, 32} : p >= x /\ (p = 1 \/ p \div 2 < x)

(* C26: in the built tree every internal node whose two children hold       *)
(* digests is the hash of the smaller child followed by the larger; an      *)
(* internal node whose left child alone holds a digest equals that child,   *)
(* and its right child is the 32-byte zero; getRootHash returns hashes[1];  *)
(* the leaves sit from branchCount on, in the order of the contents.        *)
C26_BranchRule ==
    (~tree.isDirty /\ Len(tree.contents) > 0) =>
        LET hashes == tree.cached.hashes
            count == Len(tree.contents)
            branchCount == PowerOfTwoFor(count + (count % 2))
        IN  /\ hashes[0] = branchCount
            /\ \A i \in 1..(branchCount - 1) :
                  LET left == At(hashes, 2 * i)
                      right == At(hashes, 2 * i + 1)
                  IN  /\ (IsDigest(left) /\ IsDigest(right)) =>
                            At(hashes, i) = hash(<<Smaller(left, right), Larger(left, right)>>)
                      /\ (IsDigest(left) /\ ~IsDigest(right)) =>
                            right = Zero /\ At(hashes, i) = left
            /\ \A k \in 1..count :
                  /\ hashes[branchCount + k - 1] = hashLeaf(tree.contents[k], <<>>)
                  /\ tree.cached.indexOf[tree.contents[k].address] = branchCount + k - 1
            /\ (ret.op = "getRootHash" /\ ret.ok) => ret.value = <<toHex(hashes[1])>>

(* five members: the fifth leaf is carried up twice beside a zero, and the *)
(* root is the hash of a pair                                               *)
C26_Witness ==
    /\ ~tree.isDirty
    /\ Len(tree.contents) = 5
    /\ ret.op = "getRootHash"
    /\ tree.cached.hashes[13] = Zero
    /\ tree.cached.hashes[6] = tree.cached.hashes[12]
    /\ tree.cached.hashes[7] = Zero
    /\ tree.cached.hashes[3] = tree.cached.hashes[6]
    /\ IsDigest(tree.cached.hashes[2])
    /\ tree.cached.hashes[1] # tree.cached.hashes[2]
    /\ tree.cached.hashes[1] # tree.cached.hashes[3]

RECURSIVE TwoToThe(_)
TwoToThe(n) == IF n = 0 THEN 1 ELSE 2 * TwoToThe(n - 1)

(* C27: the path returned for a member of non-empty contents has exactly    *)
(* log2(branchCount) elements, branchCount being the smallest power of two  *)
(* that is at least the member count rounded up to even; the path of a      *)
(* single member is the 32-byte zero alone, and with two members a path     *)
(* has one element.                                                         *)
C27_PathLength ==
    (ret.op = "getPath" /\ Len(tree.contents) > 0 /\ IsLeaf(ret.member.address)) =>
        LET count == Len(tree.contents)
        IN  /\ ret.ok
            /\ TwoToThe(Len(ret.value)) = PowerOfTwoFor(count + (count % 2))
            /\ count = 1 => ret.value = <<toHex(Zero)>>
            /\ count = 2 => Len(ret.value) = 1

(* the path of a single member *)
C27_Witness ==
    /\ ret.op = "getPath"
    /\ ret.ok
    /\ Len(tree.contents) = 1
    /\ IsLeaf(ret.member.address)
    /\ ret.value = <<toHex(Zero)>>

(* the leaf hashes of the members of a tree of three *)
LeafHash(k) == hashLeaf(tree.contents[k], <<>>)

MiddleOfThree ==
    /\ ret.op = "getPath"
    /\ ret.ok
    /\ Len(tree.contents) = 3
    /\ ret.member.address = tree.contents[2].address

(* C28 as stated: with three members the last slot of the leaf level is    *)
(* the zero, and the path of the second member is the leaf hash of its     *)
(* sibling followed by a digest obtained by hashing a pair of children.    *)
C28_MiddlePathPairHash ==
    MiddleOfThree =>
        /\ tree.cached.hashes[7] = Zero
        /\ Len(ret.value) = 2
        /\ fromHex(ret.value[1]) = LeafHash(1)
        /\ fromHex(ret.value[2]) =
              hash(<<Smaller(LeafHash(3), Zero), Larger(LeafHash(3), Zero)>>)

(* C28 amended: with three members the last slot of the leaf level is the  *)
(* zero, and the path of the second member is the leaf hash of the first   *)
(* member followed by the leaf hash of the third member, which the build   *)
(* copied into the parent of the third leaf and the zero without hashing.  *)
C28_MiddlePath ==
    MiddleOfThree =>
        /\ tree.cached.hashes[7] = Zero
        /\ Len(ret.value) = 2
        /\ fromHex(ret.value[1]) = LeafHash(1)
        /\ fromHex(ret.value[2]) = LeafHash(3)
        /\ tree.cached.hashes[3] = tree.cached.hashes[6]

C28_Witness ==
    /\ MiddleOfThree
    /\ fromHex(ret.value[2]) = LeafHash(3)
    /\ LeafHash(3) # LeafHash(1)

(* the slots that getPath reads on the way from index i to the root *)
RECURSIVE SiblingSlots(_)
SiblingSlots(i) ==
    IF i > 1
    THEN {IF i % 2 = 0 THEN i + 1 ELSE i - 1} \cup SiblingSlots(i \div 2)
    ELSE {}

(* C38: for every member of non-empty contents, every slot that getPath    *)
(* reads on the way from the member's leaf to the root was written by the  *)
(* build, and the path returned holds a digest or the 32-byte zero in      *)
(* every element.                                                           *)
C38_PathPopulated ==
    /\ (~tree.isDirty /\ Len(tree.contents) > 0) =>
          \A k \in 1..Len(tree.contents) :
              \A i \in SiblingSlots(tree.cached.indexOf[tree.contents[k].address]) :
                  At(tree.cached.hashes, i) # Undefined
    /\ (ret.op = "getPath" /\ Len(tree.contents) > 0 /\ IsLeaf(ret.member.address)) =>
          /\ ret.ok
          /\ \A k \in 1..Len(ret.value) : fromHex(ret.value[k]) # Undefined

(* the path of the fifth of five members: two zeros that the build wrote   *)
(* beside odd nodes, then the hash of a pair                                *)
C38_Witness ==
    /\ ret.op = "getPath"
    /\ ret.ok
    /\ Len(tree.contents) = 5
    /\ ret.member.address = tree.contents[5].address
    /\ Len(ret.value) = 3
    /\ fromHex(ret.value[1]) = Zero
    /\ fromHex(ret.value[2]) = Zero
    /\ IsDigest(fromHex(ret.value[3]))

----------------------------------------------------------------------------
(* The lazy build of the tree: SpecCache.  The calls are those of          *)
(* SpecMerkle; lastOp remembers what was done before the last call, and    *)
(* how many builds the tree had run by then.  getContents has no await,    *)
(* so the build and the read of the cache are one step of a call.          *)

CacheUpdate ==
    /\ tree.builds < MaxBuilds
    /\ \E contents \in ContentsLists : tree' = update(tree, contents)
    /\ ret' = NoCall
    /\ lastOp' = Op("update", <<>>, tree.builds)
    /\ UNCHANGED <<plasma, now, revenueApplied, seeded, chain, channel, watcher, applied, store, finalPlasma>>

CacheRootHash ==
    /\ \E r \in {getRootHash(tree)} :
          /\ tree' = r.tree
          /\ ret' = Call("getRootHash", NoMember, r)
    /\ lastOp' = Op(ret.op, <<>>, tree.builds)
    /\ UNCHANGED <<plasma, now, revenueApplied, seeded, chain, channel, watcher, applied, store, finalPlasma>>

CachePath ==
    /\ \E a \in {1, 2, MaxMembers + 1} :
          \E r \in {getPath(tree, a)} :
              /\ tree' = r.tree
              /\ ret' = Call("getPath", MonoplasmaMember(a, 0, TRUE), r)
    /\ lastOp' = Op(ret.op, <<>>, tree.builds)
    /\ UNCHANGED <<plasma, now, revenueApplied, seeded, chain, channel, watcher, applied, store, finalPlasma>>

NextCache == CacheUpdate \/ CacheRootHash \/ CachePath

SpecCache == InitMerkle /\ [][NextCache]_vars

Calls == {"getRootHash", "getPath"}

(* what a call on the built tree returns *)
Served ==
    IF ret.op = "getRootHash"
    THEN ret.ok /\ ret.value = <<toHex(tree.cached.hashes[1])>>
    ELSE \/ /\ ret.ok
             /\ ret.member.address \in DOMAIN tree.cached.indexOf
             /\ ret.value = Map(pathLoop(tree.cached.hashes,
                                         tree.cached.indexOf[ret.member.address]), toHex)
         \/ /\ ~ret.ok
             /\ ret.member.address \notin DOMAIN tree.cached.indexOf

(* C23: between two updates the tree is built at most once: the first call  *)
(* after an update runs at most one build, a call that follows another      *)
(* call runs none, and every call that succeeds in reading the tree         *)
(* returns its value from the one cached build of the current contents.     *)
C23_BuiltAtMostOnce ==
    ret.op \in Calls =>
        /\ lastOp.op \in Calls => tree.builds = lastOp.amount
        /\ lastOp.op \notin Calls => tree.builds <= lastOp.amount + 1
        /\ Len(tree.contents) > 0 =>
              /\ ~tree.isDirty
              /\ tree.cached = buildMerkleTree(tree.contents)
              /\ Served

(* what a tree constructed anew over the current contents returns *)
Fresh ==
    IF ret.op = "getRootHash"
    THEN getRootHash(MerkleTree(tree.contents))
    ELSE getPath(MerkleTree(tree.contents), ret.member.address)

(* C39: whatever updates and calls came before, getRootHash and getPath    *)
(* return what a tree constructed anew over the contents of the most       *)
(* recent update returns.                                                   *)
C39_CacheNeverStale ==
    ret.op \in Calls =>
        /\ ret.ok = Fresh.ok
        /\ ret.error = Fresh.error
        /\ ret.value = Fresh.value

(* the first call after an update that followed an earlier build *)
C39_Witness ==
    /\ ret.op = "getRootHash"
    /\ ret.ok
    /\ lastOp.op = "none"
    /\ lastOp.amount = 1
    /\ tree.builds = 2
    /\ Len(tree.contents) = 3

(* a path served after a root hash from the one build of five members *)
C23_Witness ==
    /\ ret.op = "getPath"
    /\ ret.ok
    /\ lastOp.op = "getRootHash"
    /\ lastOp.amount = 1
    /\ tree.builds = 1
    /\ Len(tree.contents) = 5

----------------------------------------------------------------------------
(* The watcher with its chain and channel: SpecWatcher.  The wall clock    *)
(* counts block intervals: block n is mined at time n with at most one     *)
(* log; messages are stamped with the wall clock and delivered in the      *)
(* order of publication.                                                    *)

BlockLogs(n) ==
    { <<>>,
      <<Event("Transfer", n, 0, 0, 2)>>,
      <<Event("AdminFeeChanged", n, 0, 0, FeeScale \div 2)>>,
      <<Event("BlockCreated", n, 0, 0, n)>> }

InitWatcher ==
    /\ plasma = MonoplasmaState(1, <<>>, 0, 0, 0)
    /\ seeded = 0
    /\ now = 0
    /\ revenueApplied = 0
    /\ lastOp = Op("init", <<>>, 0)
    /\ tree = MerkleTree(<<>>)
    /\ ret = NoCall
    /\ NoWatcher

(* a block interval passes and the next block is mined *)
MineUpTo(head) ==
    /\ Len(chain) < head
    /\ now' = now + 1
    /\ \E logs \in BlockLogs(Len(chain) + 1) : chain' = Append(chain, Block(now', logs))
    /\ UNCHANGED <<plasma, revenueApplied, seeded, lastOp, tree, ret,
                   channel, watcher, applied, store, finalPlasma>>

Mine == MineUpTo(MaxHead)

Publish ==
    /\ Len(channel.stream) < MaxMessages
    /\ \E type \in {"join", "part"} :
          channel' = [channel EXCEPT
                         !.stream = Append(@, Message(type, <<1>>, now * Millis))]
    /\ UNCHANGED <<plasma, now, revenueApplied, seeded, lastOp, tree, ret,
                   chain, watcher, applied, store, finalPlasma>>

(* start(config) up to channel.listen: this.state is put together, the     *)
(* State is constructed from the last published block of the store and the *)
(* caching message handler is registered; a rejected loadBlock rejects     *)
(* start                                                                    *)
StartFrom(pc, configs) ==
    /\ watcher.pc = pc
    /\ \E config \in configs :
          LET state == startState(store, config)
              loaded == startBlock(store, state)
              lastBlock == loaded.block
          IN  IF loaded.ok
              THEN /\ plasma' = MonoplasmaState(state.blockFreezeSeconds, lastBlock.members,
                                                state.adminFee, lastBlock.blockNumber,
                                                lastBlock.timestamp)
                   /\ watcher' = [watcher EXCEPT
                                     !.pc = "listening",
                                     !.state = state,
                                     !.lastPublishedBlock = lastPublishedBlockNumber(state)]
              ELSE /\ watcher' = [watcher EXCEPT !.pc = "failed", !.state = state]
                   /\ UNCHANGED plasma
    /\ UNCHANGED <<now, revenueApplied, seeded, lastOp, tree, ret,
                   chain, channel, applied, store, finalPlasma>>

StartWith(configs) == StartFrom("constructed", configs)

Start == StartWith({[reset |-> FALSE]})

(* a message of the channel reaches the handlers registered so far: the    *)
(* caching handler, and after playback the live handler as well            *)
Deliver ==
    /\ watcher.pc # "constructed"
    /\ channel.delivered < Len(channel.stream)
    /\ LET event == channel.stream[channel.delivered + 1]
       IN  /\ channel' = [channel EXCEPT !.delivered = @ + 1]
           /\ watcher' = [watcher EXCEPT !.messageCache = Append(@, event)]
           /\ IF watcher.pc = "live"
              THEN /\ plasma' = replayOn(plasma, <<event>>, <<>>)
                   /\ applied' = Append(applied, Stamp(chain, event))
              ELSE UNCHANGED <<plasma, applied>>
    /\ UNCHANGED <<now, revenueApplied, seeded, lastOp, tree, ret, chain, store, finalPlasma>>

(* channel.listen has resolved, the messages published so far having been  *)
(* resent, and eth.getBlockNumber() is read                                 *)
GetBlockNumber ==
    /\ watcher.pc = "listening"
    /\ channel.delivered = Len(channel.stream)
    /\ watcher' = [watcher EXCEPT !.pc = "playback", !.toBlock = Len(chain)]
    /\ UNCHANGED <<plasma, now, revenueApplied, seeded, lastOp, tree, ret,
                   chain, channel, applied, store, finalPlasma>>

(* playbackUntilBlock(currentBlock) and the registration of the live       *)
(* handlers; the provider reports the logs of the blocks mined from now on *)
Playback ==
    /\ watcher.pc = "playback"
    /\ \E played \in {playbackUntilBlock(watcher, plasma, chain, watcher.toBlock)} :
          /\ plasma' = played.plasma
          /\ applied' = applied \o [i \in 1..Len(played.items) |-> Stamp(chain, played.items[i])]
          /\ watcher' = [watcher EXCEPT
                            !.pc = "live",
                            !.lastPublishedBlock = played.lastPublishedBlock,
                            !.liveBlock = Len(chain) + 1]
    /\ UNCHANGED <<now, revenueApplied, seeded, lastOp, tree, ret, chain, channel, store, finalPlasma>>

(* the live handlers of the contract and the token: the logs of the next   *)
(* block are delivered                                                      *)
LiveBlock ==
    /\ watcher.pc = "live"
    /\ watcher.liveBlock <= Len(chain)
    /\ LET logs == chain[watcher.liveBlock].logs
           replayed == SelectSeq(logs, LAMBDA e : e.event \in {"AdminFeeChanged", "Transfer"})
           created == SelectSeq(logs, LAMBDA e : e.event = "BlockCreated")
       IN  /\ plasma' = replayOn(plasma, replayed, <<>>)
           /\ applied' = applied \o [i \in 1..Len(replayed) |-> Stamp(chain, replayed[i])]
           /\ watcher' = [watcher EXCEPT
                             !.liveBlock = @ + 1,
                             !.lastPublishedBlock =
                                 IF created = <<>> THEN @ ELSE created[Len(created)].args]
    /\ UNCHANGED <<now, revenueApplied, seeded, lastOp, tree, ret, chain, channel, store, finalPlasma>>

NextWatcher ==
    \/ Mine \/ Publish
    \/ Start \/ Deliver \/ GetBlockNumber \/ Playback \/ LiveBlock

SpecWatcher == InitWatcher /\ [][NextWatcher]_vars

(* C9: over playback at start followed by live mode, the sequence of chain *)
(* events and channel messages applied to the real-time State is           *)
(* non-decreasing in timestamp.                                             *)
C9_AppliedInTimestampOrder ==
    \A i, j \in 1..Len(applied) :
        i < j => applied[i].timestamp <= applied[j].timestamp

(* C11: in live mode every arriving chain event of the three kinds and     *)
(* every arriving join or part message is applied to the real-time State   *)
(* on arrival: the State after the delivery is the State before it with    *)
(* the delivered items replayed.                                            *)
C11_LiveEventsApplied ==
    [][ /\ (watcher.pc = "live" /\ watcher'.liveBlock = watcher.liveBlock + 1)
           => plasma' = replayAll(plasma, chain[watcher.liveBlock].logs)
        /\ (watcher.pc = "live" /\ channel'.delivered = channel.delivered + 1)
           => plasma' = replayAll(plasma, <<channel.stream[channel.delivered + 1]>>)
      ]_vars

----------------------------------------------------------------------------
(* Pruning of the message cache: SpecPrune.  Beside the real-time State    *)
(* the watcher is asked to play back a second State that was constructed   *)
(* empty at block 0; the cache is pruned up to the real-time State's       *)
(* currentTimestamp at any time in live mode.                               *)

(* channelPruneCache() *)
Prune ==
    /\ watcher.pc = "live"
    /\ watcher' = channelPruneCache(watcher, plasma)
    /\ UNCHANGED <<plasma, now, revenueApplied, seeded, lastOp, tree, ret,
                   chain, channel, applied, store, finalPlasma>>

(* playbackUntilBlock(toBlock, finalPlasma) for a toBlock of `toBlocks`,   *)
(* one of the RPC calls numbered in `failings` rejecting (0: none)         *)
PlaybackFinalWith(toBlocks, failings) ==
    /\ watcher.pc = "live"
    /\ \E toBlock \in toBlocks, failing \in failings :
          \E played \in {playbackUntilBlockRpc(watcher, finalPlasma, chain, toBlock, failing)} :
              /\ finalPlasma' = played.plasma
              /\ lastOp' = Op("playbackUntilBlock", <<>>, toBlock)
              /\ ret' = Call("playbackUntilBlock", NoMember,
                             Result(<<>>, played.outcome # "threw", played.error, <<>>))
    /\ UNCHANGED <<plasma, now, revenueApplied, seeded, tree,
                   chain, channel, watcher, applied, store>>

PlaybackFinal == PlaybackFinalWith(0..Len(chain), {0})

NextPrune ==
    \/ Mine \/ Publish
    \/ Start \/ Deliver \/ GetBlockNumber \/ Playback
    \/ Prune \/ PlaybackFinal

SpecPrune == InitWatcher /\ [][NextPrune]_vars

(* a playback of the second State was requested in this step *)
PlaybackRequested ==
    /\ lastOp'.op = "playbackUntilBlock"
    /\ <<lastOp, ret, finalPlasma>>' # <<lastOp, ret, finalPlasma>>

(* C13: once the cache has been pruned up to cachePrunedUpTo, a playback   *)
(* request on a State whose currentTimestamp is below cachePrunedUpTo is   *)
(* refused with the CachePruned error whatever toBlock is requested, and   *)
(* leaves the State, the cache and cachePrunedUpTo as they were.            *)
C13_PrunedPlaybackRefused ==
    [][ (PlaybackRequested /\ finalPlasma.currentTimestamp < watcher.cachePrunedUpTo)
            => /\ ~ret'.ok
               /\ ret'.error = "CachePruned"
               /\ finalPlasma' = finalPlasma
               /\ watcher' = watcher
      ]_vars

(* C32: a playback request for a toBlock above the State's currentBlock,  *)
(* currentBlock + 1 included, that returns normally leaves currentBlock =  *)
(* toBlock with the Transfers of blocks currentBlock+1 .. toBlock applied; *)
(* for toBlock <= currentBlock it changes nothing.                          *)
C32_PlaybackAdvances ==
    [][ (PlaybackRequested /\ ret'.ok) =>
            IF lastOp'.amount > finalPlasma.currentBlock
            THEN /\ finalPlasma'.currentBlock = lastOp'.amount
                 /\ getTotalRevenue(finalPlasma') = getTotalRevenue(finalPlasma) +
                        SumSeq(Map(getLogs(chain, "Transfer",
                                           finalPlasma.currentBlock + 1, lastOp'.amount),
                                   LAMBDA e : e.args))
            ELSE finalPlasma' = finalPlasma
      ]_vars

----------------------------------------------------------------------------
(* The real-time State overwritten: SpecHorizon.  As SpecPrune, and in     *)
(* live mode the watcher is told to set its State to a clone of the second *)
(* State.                                                                   *)

(* setState(monoplasmaState): a new State of the given members at the      *)
(* given State's block and timestamp                                        *)
setState(w, monoplasmaState) ==
    MonoplasmaState(w.state.blockFreezeSeconds,
                    Map(monoplasmaState.members, toObject),
                    w.state.adminFee,
                    monoplasmaState.currentBlock,
                    monoplasmaState.currentTimestamp)

SetState ==
    /\ watcher.pc = "live"
    /\ plasma' = setState(watcher, finalPlasma)
    /\ lastOp' = Op("setState", <<>>, 0)
    /\ UNCHANGED <<now, revenueApplied, seeded, tree, ret,
                   chain, channel, watcher, applied, store, finalPlasma>>

NextHorizon ==
    \/ Mine \/ Publish
    \/ Start \/ Deliver \/ GetBlockNumber \/ Playback
    \/ Prune \/ PlaybackFinal \/ SetState

SpecHorizon == InitWatcher /\ [][NextHorizon]_vars

(* the messages received so far *)
Received == {channel.stream[k] : k \in 1..channel.delivered}

Cached == {watcher.messageCache[k] : k \in 1..Len(watcher.messageCache)}

(* C33: no step decreases cachePrunedUpTo, and after every step the cache  *)
(* holds every message received so far whose timestamp is greater than     *)
(* cachePrunedUpTo.                                                         *)
C33_PruningHorizon ==
    [][ /\ watcher'.cachePrunedUpTo >= watcher.cachePrunedUpTo
        /\ \A message \in Received' :
              message.timestamp > watcher'.cachePrunedUpTo => message \in Cached'
      ]_vars

----------------------------------------------------------------------------
(* Failing RPC calls: SpecRpc.  The watcher is started on an empty store    *)
(* and chain; once it is live, blocks are mined and messages published,    *)
(* and the playback of the second State up to the head of the chain is     *)
(* requested again and again.  No call rejects, or the first one, or the   *)
(* last getLogs, or the first or the last getBlock of an event.             *)

Failings ==
    {0, 1, CallsBeforeTimestamps, CallsBeforeTimestamps + 1, CallsBeforeTimestamps + MaxHead}

PlaybackFinalRpc == PlaybackFinalWith({Len(chain)}, Failings)

Live == watcher.pc = "live"

LiveMine == Live /\ Mine

LivePublish == Live /\ Publish

NextRpc ==
    \/ LiveMine \/ LivePublish
    \/ Start \/ Deliver \/ GetBlockNumber \/ Playback
    \/ PlaybackFinalRpc

SpecRpc == InitWatcher /\ [][NextRpc]_vars

(* the logs of one kind in the blocks up to toBlock *)
LogsUpTo(name, toBlock) == getLogs(chain, name, 1, toBlock)

(* every chain event up to the State's currentBlock was applied to it once: *)
(* each Transfer is in the revenue once, each BlockCreated made one block  *)
EventsOnce(s) ==
    /\ getTotalRevenue(s) = SumSeq(Map(LogsUpTo("Transfer", s.currentBlock), LAMBDA e : e.args))
    /\ Len(s.blocks) = Len(LogsUpTo("BlockCreated", s.currentBlock))

(* C16: a playback in which an RPC call rejects is rejected with that      *)
(* error and leaves the State it was to advance (members, earnings,        *)
(* currentBlock, currentTimestamp) as it was, so that whatever playbacks   *)
(* failed before, the State holds every chain event up to its currentBlock *)
(* exactly once.                                                            *)
C16_RpcFailureLeavesState ==
    [][ /\ (PlaybackRequested /\ ret'.error = "RpcError")
            => ~ret'.ok /\ finalPlasma' = finalPlasma
        /\ EventsOnce(finalPlasma')
      ]_vars

(* a playback over two blocks with a Transfer each has just been rejected  *)
(* on a State that an earlier playback had not advanced                     *)
C16_Witness ==
    /\ ret.error = "RpcError"
    /\ lastOp = Op("playbackUntilBlock", <<>>, 2)
    /\ finalPlasma.currentBlock = 0
    /\ Len(LogsUpTo("Transfer", 2)) = 2
    /\ watcher.messageCache # <<>>

----------------------------------------------------------------------------
(* Startup from a store: SpecStartup.  The store is empty or holds a saved *)
(* state that names block 1 as the last published one (as a number or as a *)
(* serialized BigNumber) with the block itself, or without it, or a saved  *)
(* configuration; the chain has reached block 1.                            *)

StoredMembers ==
    { <<>>,
      <<[address |-> 1, earnings |-> toString10(2)]>>,
      <<[address |-> 1, earnings |-> toString10(2)],
        [address |-> 2, earnings |-> toString10(13), active |-> FALSE]>>,
      <<[address |-> 2, earnings |-> toString10(0), active |-> TRUE],
        [address |-> 1, earnings |-> toString10(10)]>> }

StoredBlock(blockNumber, members) ==
    [ blockNumber |-> blockNumber,
      timestamp |-> blockNumber * Millis,
      members |-> members,
      totalEarnings |-> SumSeq(Map(members, LAMBDA o : parseBN(o.earnings))) ]

LastPublished(blockNumber) == [lastPublishedBlock |-> [blockNumber |-> blockNumber]]

(* the configuration that saveState left in the store: that of the        *)
(* contract, or one that differs in the token or in the freeze period      *)
SavedConfig(tokenAddress, adminAddress, blockFreezeSeconds) ==
    [ tokenAddress |-> tokenAddress,
      adminAddress |-> adminAddress,
      blockFreezeSeconds |-> blockFreezeSeconds ]

SavedConfigs ==
    { SavedConfig(Contract.token, Contract.owner, Contract.blockFreezeSeconds),
      SavedConfig(Contract.token + 1, Contract.owner, Contract.blockFreezeSeconds),
      SavedConfig(Contract.token, Contract.owner, Contract.blockFreezeSeconds + 1) }

Stores ==
    {NoStore}
      \cup {[state |-> LastPublished(SavedNumber(1)),
             blocks |-> (1 :> StoredBlock(1, members))] : members \in StoredMembers}
      \cup {[state |-> LastPublished(SavedBigNumber(1)),
             blocks |-> (1 :> StoredBlock(1, members))] :
                members \in {m \in StoredMembers : Len(m) = 1}}
      \cup {[state |-> LastPublished(SavedNumber(1)), blocks |-> EmptyObject]}
      \cup {[state |-> config, blocks |-> EmptyObject] : config \in SavedConfigs}

Configs == {[reset |-> FALSE], [reset |-> TRUE]}

InitStartup ==
    /\ plasma = MonoplasmaState(1, <<>>, 0, 0, 0)
    /\ seeded = 0
    /\ now = 1
    /\ revenueApplied = 0
    /\ lastOp = Op("init", <<>>, 0)
    /\ tree = MerkleTree(<<>>)
    /\ ret = NoCall
    /\ chain = <<Block(1, <<>>)>>
    /\ channel = NoChannel
    /\ watcher = MonoplasmaWatcher
    /\ applied = <<>>
    /\ store \in Stores
    /\ finalPlasma = MonoplasmaState(1, <<>>, 0, 0, 0)

StartAny == StartWith(Configs)

Starting == watcher.pc \notin {"live", "failed"}

(* the chain while start() is under way, the channel until it has been    *)
(* listened to                                                              *)
MineMore == Starting /\ MineUpTo(MaxHead + 1)

PublishMore == watcher.pc \in {"constructed", "listening"} /\ Publish

NextStartup ==
    \/ MineMore \/ PublishMore
    \/ StartAny \/ Deliver \/ GetBlockNumber \/ Playback

SpecStartup == InitStartup /\ [][NextStartup]_vars

Started == watcher.pc \in {"listening", "playback", "live"}

(* the members of the State are those of the stored block, in its order *)
SeededFrom(block) ==
    /\ Len(plasma.members) = Len(block.members)
    /\ \A i \in 1..Len(block.members) :
          /\ plasma.members[i].address = block.members[i].address
          /\ plasma.members[i].earnings = parseBN(block.members[i].earnings)
          /\ plasma.members[i].active =
                (Has(block.members[i], "active") => block.members[i].active)

(* C12: after start() without reset, with a persisted lastPublishedBlock   *)
(* and nothing replayed since, the real-time State holds exactly the       *)
(* members of that stored block with their earnings, a member without a    *)
(* stored active flag being active; after start() with reset it holds no   *)
(* members.                                                                 *)
C12_StartupSeeding ==
    (Started /\ applied = <<>>) =>
        IF watcher.state.reset
        THEN plasma.members = <<>>
        ELSE Has(store.state, "lastPublishedBlock") => SeededFrom(store.blocks[1])

(* started without reset from a block of two members, one without flag and *)
(* one inactive; playback has run and found nothing to replay              *)
C12_Witness ==
    /\ watcher.pc = "live"
    /\ ~watcher.state.reset
    /\ applied = <<>>
    /\ Len(chain) = 3
    /\ Len(plasma.members) = 2
    /\ plasma.members[1].active /\ plasma.members[1].earnings = 2
    /\ ~plasma.members[2].active /\ plasma.members[2].earnings = 13
    /\ plasma.currentBlock = 3

(* the saved state holds a configuration that is not the contract's *)
PersistedDiffers ==
    \/ Has(store.state, "tokenAddress") /\ store.state.tokenAddress # Contract.token
    \/ Has(store.state, "adminAddress") /\ store.state.adminAddress # Contract.owner
    \/ /\ Has(store.state, "blockFreezeSeconds")
       /\ store.state.blockFreezeSeconds # Contract.blockFreezeSeconds

(* C14: start() without reset compares the persisted token address, admin  *)
(* address and blockFreezeSeconds with what the contract returns, and      *)
(* fails when they differ: it never goes on to listen, play back or run    *)
(* live.                                                                    *)
C14_ConfigMismatchFails ==
    (watcher.pc # "constructed" /\ ~watcher.state.reset /\ PersistedDiffers)
        => watcher.pc = "failed"

----------------------------------------------------------------------------
(* start() to its end: SpecSave.  After the playback and the registration  *)
(* of the live handlers, start() saves this.state, in which                *)
(* lastPublishedBlock is what playbackUntilBlock returned.                  *)

(* obj.lastPublishedBlock = returned: the block number that playback     *)
(* returned, or undefined, which reads as a field that is missing          *)
withLastPublishedBlock(obj, returned) ==
    IF returned = Undefined
    THEN [f \in DOMAIN obj \ {"lastPublishedBlock"} |-> obj[f]]
    ELSE assign(obj, [lastPublishedBlock |-> [blockNumber |-> SavedNumber(returned)]])

(* store.saveState(state) *)
saveState(st, state) == [st EXCEPT !.state = state]

(* start(): this.state.lastPublishedBlock = await playbackUntilBlock(...), *)
(* and at the end await this.store.saveState(this.state)                    *)
SaveState ==
    /\ watcher.pc = "live"
    /\ lastOp.op # "saveState"
    /\ \E state \in {withLastPublishedBlock(watcher.state, watcher.lastPublishedBlock)} :
          /\ store' = saveState(store, state)
          /\ watcher' = [watcher EXCEPT !.state = state]
    /\ lastOp' = Op("saveState", <<>>, lastPublishedBlockNumber(loadState(store)))
    /\ UNCHANGED <<plasma, now, revenueApplied, seeded, tree, ret, chain, channel, applied, finalPlasma>>

NextSave ==
    \/ MineMore \/ PublishMore
    \/ StartAny \/ Deliver \/ GetBlockNumber \/ Playback \/ SaveState

SpecSave == InitStartup /\ [][NextSave]_vars

(* C31: when start() without reset has saved its state, the block number   *)
(* of the saved lastPublishedBlock is at least the one that the store held *)
(* when start() began (lastOp.amount).                                      *)
C31_PersistedNeverRegresses ==
    (lastOp.op = "saveState" /\ ~watcher.state.reset /\ lastOp.amount # Undefined) =>
        /\ lastPublishedBlockNumber(store.state) # Undefined
        /\ lastPublishedBlockNumber(store.state) >= lastOp.amount

----------------------------------------------------------------------------
(* The 'block' notifications of the provider during start(): SpecBoot.     *)
(* start() registers the handler and then puts this.state together, which  *)
(* without reset awaits store.loadState(); the constructor does not set    *)
(* this.state.  lastOp holds the number of the last block notified and ret *)
(* the outcome of the handler.                                              *)

(* start(config) up to `await this.store.loadState()`: the handler is      *)
(* registered; with reset nothing is awaited before this.state is set      *)
BeginStart ==
    \/ StartWith({[reset |-> TRUE]})
    \/ /\ watcher.pc = "constructed"
       /\ watcher' = [watcher EXCEPT !.pc = "loading"]
       /\ UNCHANGED <<plasma, now, revenueApplied, seeded, lastOp, tree, ret,
                      chain, channel, applied, store, finalPlasma>>

(* store.loadState() has resolved: start() goes on up to channel.listen *)
StateLoaded == StartFrom("loading", {[reset |-> FALSE]})

(* this.eth.on("block", ...): this.state.lastObservedBlockNumber = blockNumber, *)
(* a TypeError while this.state is undefined                                *)
OnBlock ==
    /\ watcher.pc # "constructed"
    /\ lastOp.amount < Len(chain)
    /\ lastOp' = Op("block", <<>>, Len(chain))
    /\ IF watcher.pc = "loading"
       THEN /\ ret' = Call("block", NoMember, Result(<<>>, FALSE, "TypeError", <<>>))
            /\ UNCHANGED watcher
       ELSE /\ ret' = Call("block", NoMember, Result(<<>>, TRUE, "", <<>>))
            /\ watcher' = [watcher EXCEPT
                              !.state = assign(@, [lastObservedBlockNumber |-> Len(chain)])]
    /\ UNCHANGED <<plasma, now, revenueApplied, seeded, tree,
                   chain, channel, applied, store, finalPlasma>>

NextBoot ==
    \/ Mine \/ Publish
    \/ BeginStart \/ StateLoaded \/ OnBlock
    \/ Deliver \/ GetBlockNumber \/ Playback

SpecBoot == InitWatcher /\ [][NextBoot]_vars

(* C35: whenever the 'block' handler has run, it found this.state set and  *)
(* recorded the block number without failing.                               *)
C35_BlockHandlerFindsState ==
    ret.op = "block" =>
        /\ ret.ok
        /\ Has(watcher.state, "lastObservedBlockNumber")

----------------------------------------------------------------------------
(* One playback over a given chain and message cache: SpecMerge.  The      *)
(* chain has two blocks of up to MaxLogs logs each, of any of the three    *)
(* kinds; the blocks may carry the same timestamp.  The cache holds up to  *)
(* MaxMessages joins in the order of their timestamps.                      *)

LogKeys == {<<0, 0>>, <<0, 1>>, <<1, 0>>}

KeyLess(k1, k2) == k1[1] < k2[1] \/ (k1[1] = k2[1] /\ k1[2] < k2[2])

EventNames == {"AdminFeeChanged", "BlockCreated", "Transfer"}

(* the logs a block may hold, in the order of (transactionIndex, logIndex) *)
LogLists(n) ==
    UNION {{logs \in [1..len -> [key : LogKeys, name : EventNames]] :
               \A i \in 1..(len - 1) : KeyLess(logs[i].key, logs[i + 1].key)} :
              len \in 0..MaxLogs}

AsEvents(n, logs) ==
    [i \in 1..Len(logs) |-> Event(logs[i].name, n, logs[i].key[1], logs[i].key[2], 1)]

MergeChains ==
    {<<Block(1, AsEvents(1, logs1)), Block(t2, AsEvents(2, logs2))>> :
        logs1 \in LogLists(1), logs2 \in LogLists(2), t2 \in {1, 2}}

MessageTimes == {Millis, Millis + Millis \div 2, 2 * Millis}

MessageLists ==
    UNION {{[i \in 1..len |-> Message("join", <<i>>, times[i])] :
               times \in {t \in [1..len -> MessageTimes] :
                             \A i \in 1..(len - 1) : t[i] <= t[i + 1]}} :
              len \in 0..MaxMessages}

FreshState == MonoplasmaState(1, NoBlock.members, 0, NoBlock.blockNumber, NoBlock.timestamp)

InitMerge ==
    /\ plasma = FreshState
    /\ seeded = 0
    /\ now = 2
    /\ revenueApplied = 0
    /\ lastOp = Op("init", <<>>, 0)
    /\ tree = MerkleTree(<<>>)
    /\ ret = NoCall
    /\ chain \in MergeChains
    /\ \E messages \in MessageLists :
          /\ channel = [stream |-> messages, delivered |-> Len(messages)]
          /\ watcher = [MonoplasmaWatcher EXCEPT
                            !.pc = "playback",
                            !.messageCache = messages,
                            !.toBlock = Len(chain)]
    /\ applied = <<>>
    /\ store = NoStore
    /\ finalPlasma = MonoplasmaState(1, <<>>, 0, 0, 0)

SpecMerge == InitMerge /\ [][Playback]_vars

FromChain(stamp) == stamp.source = "chain"

FromChannel(stamp) == stamp.source = "channel"

Key(stamp) == <<stamp.item.blockNumber, stamp.item.transactionIndex, stamp.item.logIndex>>

Keys(stamps) == Map(SelectSeq(stamps, FromChain), Key)

(* the same chain with every log a Transfer: all logs in one list *)
AsTransfers(blocks) ==
    [n \in 1..Len(blocks) |->
        [blocks[n] EXCEPT
            !.logs = [i \in 1..Len(@) |-> [@[i] EXCEPT !.event = "Transfer"]]]]

Stamped(blocks, items) == [i \in 1..Len(items) |-> Stamp(blocks, items[i])]

PlaybackStream(blocks) ==
    Stamped(blocks,
            playbackUntilBlock(watcher, FreshState, blocks, watcher.toBlock).items)

(* the three lists of the playback merged in another order *)
MergeOrders(blocks) ==
    LET a == getLogs(blocks, "AdminFeeChanged", 1, Len(blocks))
        b == getLogs(blocks, "BlockCreated", 1, Len(blocks))
        t == getLogs(blocks, "Transfer", 1, Len(blocks))
    IN  { playbackEvents(a, b, t), playbackEvents(a, t, b), playbackEvents(b, a, t),
          playbackEvents(b, t, a), playbackEvents(t, a, b), playbackEvents(t, b, a) }

(* C10: the stream a playback replays is sorted by timestamp; at equal     *)
(* timestamps chain events precede channel messages, chain events are in   *)
(* the order of (blockNumber, transactionIndex, logIndex) and messages in  *)
(* the order of the cache; the order of the chain events depends neither   *)
(* on the list a log arrives in nor on the order the lists are merged in.  *)
C10_EventMergeOrder ==
    watcher.pc = "live" =>
        /\ \A i, j \in 1..Len(applied) :
              i < j =>
                 /\ applied[i].timestamp <= applied[j].timestamp
                 /\ (applied[i].timestamp = applied[j].timestamp /\ FromChannel(applied[i]))
                       => FromChannel(applied[j])
                 /\ (applied[i].timestamp = applied[j].timestamp
                        /\ FromChain(applied[i]) /\ FromChain(applied[j]))
                       => /\ historyNotAfter(applied[i].item, applied[j].item)
                          /\ Key(applied[i]) # Key(applied[j])
        /\ Map(SelectSeq(applied, FromChannel), LAMBDA stamp : stamp.item)
              = SelectSeq(watcher.messageCache,
                          LAMBDA msg : msg.timestamp <= getBlockTimestamp(chain, Len(chain)))
        /\ Len(Keys(applied)) = Len(chain[1].logs) + Len(chain[2].logs)
        /\ Keys(applied) = Keys(PlaybackStream(AsTransfers(chain)))
        /\ Cardinality(MergeOrders(chain)) = 1

(* two blocks of one timestamp, logs of different lists in both, and two   *)
(* messages of that timestamp                                               *)
C10_Witness ==
    /\ watcher.pc = "live"
    /\ Len(applied) = 5
    /\ \A i \in 1..5 : applied[i].timestamp = Millis
    /\ FromChain(applied[3]) /\ FromChannel(applied[4])
    /\ applied[1].item.event = "Transfer"
    /\ applied[2].item.event = "AdminFeeChanged"
    /\ applied[1].item.blockNumber = 1
    /\ applied[2].item.blockNumber = 1
    /\ applied[3].item.blockNumber = 2

----------------------------------------------------------------------------
(* Chain re-organization: SpecReorg.  The head block is replaced by one    *)
(* without its log and the provider reports the log as removed.  The       *)
(* handling of that report is commented out in start(): no handler is      *)
(* registered for it.                                                       *)

Reorg ==
    /\ watcher.pc # "constructed"
    /\ chain # <<>>
    /\ chain[Len(chain)].logs # <<>>
    /\ chain' = [chain EXCEPT ![Len(chain)].logs = <<>>]
    /\ UNCHANGED <<plasma, now, revenueApplied, seeded, lastOp, tree, ret,
                   channel, watcher, applied, store, finalPlasma>>

NextReorg ==
    \/ Mine \/ Publish \/ Reorg
    \/ Start \/ Deliver \/ GetBlockNumber \/ Playback \/ LiveBlock

SpecReorg == InitWatcher /\ [][NextReorg]_vars

(* the log of an applied chain event is still on the chain *)
OnChain(stamp) ==
    /\ stamp.item.blockNumber \in 1..Len(chain)
    /\ \E k \in 1..Len(chain[stamp.item.blockNumber].logs) :
          LET log == chain[stamp.item.blockNumber].logs[k]
          IN  <<log.blockNumber, log.transactionIndex, log.logIndex>> = Key(stamp)

(* C15: a chain event that a re-organization removed is never left         *)
(* silently reflected in the State: if it had been applied, the watcher    *)
(* has failed with ReorgInvariantViolated.                                  *)
C15_RemovedNeverReflected ==
    (\E i \in 1..Len(applied) : FromChain(applied[i]) /\ ~OnChain(applied[i]))
        => watcher.pc = "failed"

----------------------------------------------------------------------------
(* Pending applications and stop(): SpecAsync.  A live handler is an async *)
(* function that awaits replayOn(this.plasma, [event]): between the        *)
(* arrival of an event and the completion of its application other events *)
(* arrive and other applications complete, in any order.  stop() closes    *)
(* the channel; the listeners of the contract and of the token stay.  The  *)
(* watcher is started on an empty store and chain; at most MaxEvents logs   *)
(* and messages arrive, and at most MaxPending applications are pending at *)
(* a time.                                                                  *)

(* once the watcher is live, every block that is mined holds one log that  *)
(* the live handlers replay                                                 *)
MineReplayed ==
    /\ Live
    /\ Len(chain) < MaxHead
    /\ Len(chain) + Len(channel.stream) < MaxEvents
    /\ now' = now + 1
    /\ \E logs \in {l \in BlockLogs(Len(chain) + 1) :
                        l # <<>> /\ l[1].event \in {"AdminFeeChanged", "Transfer"}} :
          chain' = Append(chain, Block(now', logs))
    /\ UNCHANGED <<plasma, revenueApplied, seeded, lastOp, tree, ret,
                   channel, watcher, applied, store, finalPlasma>>

PublishReplayed ==
    /\ Len(chain) + Len(channel.stream) < MaxEvents
    /\ LivePublish

(* a channel message arrives: the caching handler, and in live mode the    *)
(* live handler, whose application is pending                               *)
DeliverPending ==
    /\ watcher.pc \in {"listening", "playback", "live"}
    /\ channel.delivered < Len(channel.stream)
    /\ Len(watcher.pending) < MaxPending
    /\ LET event == channel.stream[channel.delivered + 1]
       IN  /\ channel' = [channel EXCEPT !.delivered = @ + 1]
           /\ watcher' = [watcher EXCEPT
                             !.messageCache = Append(@, event),
                             !.pending = IF watcher.pc = "live" THEN Append(@, event) ELSE @]
    /\ UNCHANGED <<plasma, now, revenueApplied, seeded, lastOp, tree, ret,
                   chain, applied, store, finalPlasma>>

(* the logs of the next block arrive at the live handlers *)
LiveBlockPending ==
    /\ watcher.pc \in {"live", "stopped"}
    /\ watcher.liveBlock <= Len(chain)
    /\ Len(watcher.pending) < MaxPending
    /\ LET logs == chain[watcher.liveBlock].logs
           replayed == SelectSeq(logs, LAMBDA e : e.event \in {"AdminFeeChanged", "Transfer"})
           created == SelectSeq(logs, LAMBDA e : e.event = "BlockCreated")
       IN  watcher' = [watcher EXCEPT
                          !.liveBlock = @ + 1,
                          !.pending = @ \o replayed,
                          !.lastPublishedBlock =
                              IF created = <<>> THEN @ ELSE created[Len(created)].args]
    /\ UNCHANGED <<plasma, now, revenueApplied, seeded, lastOp, tree, ret,
                   chain, channel, applied, store, finalPlasma>>

(* a pending application completes *)
Complete ==
    /\ \E i \in 1..Len(watcher.pending) :
          /\ plasma' = liveReplay(plasma, watcher.pending[i])
          /\ applied' = Append(applied, Stamp(chain, watcher.pending[i]))
          /\ watcher' = [watcher EXCEPT
                            !.pending = SubSeq(@, 1, i - 1) \o SubSeq(@, i + 1, Len(@))]
    /\ UNCHANGED <<now, revenueApplied, seeded, lastOp, tree, ret,
                   chain, channel, store, finalPlasma>>

(* stop() *)
Stop ==
    /\ watcher.pc = "live"
    /\ watcher' = [watcher EXCEPT !.pc = "stopped"]
    /\ UNCHANGED <<plasma, now, revenueApplied, seeded, lastOp, tree, ret,
                   chain, channel, applied, store, finalPlasma>>

NextAsync ==
    \/ MineReplayed \/ PublishReplayed
    \/ Start \/ GetBlockNumber \/ Playback
    \/ DeliverPending \/ LiveBlockPending \/ Complete \/ Stop

SpecAsync == InitWatcher /\ [][NextAsync]_vars

(* what the members, the admin's earnings and fee and the blocks of a      *)
(* State are after the whole events applied so far, and nothing else       *)
WholeEvents ==
    replayAll(MonoplasmaState(1, <<>>, 0, 0, 0),
              [i \in 1..Len(applied) |-> applied[i].item])

C36_NothingAfterStop ==
    [][ watcher.pc = "stopped" =>
            /\ watcher'.liveBlock = watcher.liveBlock
            /\ Len(watcher'.pending) <= Len(watcher.pending)
            /\ watcher'.messageCache = watcher.messageCache
            /\ watcher'.lastPublishedBlock = watcher.lastPublishedBlock
      ]_vars

----------------------------------------------------------------------------
(* The member route of the communities router: SpecRouter.  The State was  *)
(* constructed from a stored block whose member is written checksummed, in *)
(* lower case or without prefix; members join through the channel, blocks  *)
(* are committed, the clock advances, and members are looked up under any  *)
(* spelling.                                                                *)

(* parseAddress(address): null for what is no address *)
parseAddress(address) ==
    IF address \in Spellings THEN getAddress(address) ELSE Undefined

(* block.members.find(m => m.address === address) || {} *)
find(members, address) ==
    LET found == {i \in 1..Len(members) : members[i].address = address}
    IN  IF found = {} THEN EmptyObject
        ELSE members[CHOOSE i \in found : \A j \in found : i <= j]

(* obj.earnings || "0" *)
earningsOr0(obj) == IF Has(obj, "earnings") THEN obj.earnings ELSE toString10(0)

(* State.getProofAt(address, blockNumber), from spec.md 4.3: the tree of   *)
(* the committed block is materialized and MerkleTree.getPath(address) is  *)
(* returned; NoBlock when the block is not committed, NotAMember when the  *)
(* address is not in the snapshot, an empty path for a member without      *)
(* earnings                                                                 *)
proofIn(members, address) ==
    IF ~HasMember(members, address)
    THEN Result(<<>>, FALSE, "NotAMember", <<>>)
    ELSE IF getMember([members |-> members], address).earnings = 0
         THEN Result(<<>>, TRUE, "", <<>>)
         ELSE getPath(MerkleTree(members), address)

getProofAt(s, address, blockNumber) ==
    LET committed == {i \in 1..Len(s.blocks) : s.blocks[i].blockNumber = blockNumber}
    IN  IF committed = {} THEN Result(<<>>, FALSE, "NoBlock", <<>>)
        ELSE CHOOSE proof \in
                 { proofIn(members, address) :
                     members \in {Map(s.blocks[CHOOSE i \in committed : TRUE].members,
                                      fromObject)} } : TRUE

(* what the client of a request gets: the status and body of the response, *)
(* or no response when the handler's promise was rejected with an error    *)
Response(status, error, body) ==
    Result(<<>>, status = 200, error, [status |-> status] @@ body)

NoResponse(error) == Result(<<>>, FALSE, error, [status |-> 0])

(* GET /:communityAddress/members/:address, the community being operated *)
memberRoute(s, t, requested) ==
    LET address == parseAddress(requested)
    IN  IF address = Undefined THEN Response(400, "Bad Ethereum address", EmptyObject)
        ELSE IF ~HasMember(s.members, address)
        THEN Response(404, "Member not found", EmptyObject)
        ELSE
          LET member == getMember(s, address)
              frozenBlock == getLatestBlock(s)
              withdrawableBlock == getLatestWithdrawableBlock(s, t)
              memberFrozen ==
                  IF frozenBlock # NoBlock THEN find(frozenBlock.members, address)
                  ELSE EmptyObject
              memberWithdrawable ==
                  IF withdrawableBlock # NoBlock THEN find(withdrawableBlock.members, address)
                  ELSE EmptyObject
              recordedEarnings == earningsOr0(memberFrozen)
              withdrawableEarnings == earningsOr0(memberWithdrawable)
              body == [ address |-> member.address,
                        earnings |-> toString10(member.earnings),
                        recordedEarnings |-> recordedEarnings,
                        withdrawableEarnings |-> withdrawableEarnings,
                        frozenEarnings |->
                            toString10(parseBN(recordedEarnings) - parseBN(withdrawableEarnings)) ]
          IN  IF withdrawableBlock = NoBlock THEN Response(200, "", body)
              ELSE CHOOSE response \in
                       { IF proof.ok
                         THEN Response(200, "",
                                       [ withdrawableBlockNumber |-> withdrawableBlock.blockNumber,
                                         proof |-> proof.value ] @@ body)
                         ELSE NoResponse(proof.error) :
                           proof \in {getProofAt(s, address, withdrawableBlock.blockNumber)} } : TRUE

(* the member of the stored block that start() seeds the State with: none, *)
(* or address 1 written checksummed without prefix or in lower case         *)
RouterSeeds ==
    {<<>>} \cup
    { <<[address |-> address, earnings |-> toString10(2)]>> :
        address \in {Spelled(1, "checksum", FALSE), Spelled(1, "lower", TRUE)} }

InitRouter ==
    /\ \E seed \in RouterSeeds : plasma = MonoplasmaState(1, seed, 0, 0, 0)
    /\ seeded = 0
    /\ now = 0
    /\ revenueApplied = 0
    /\ lastOp = Op("init", <<>>, 0)
    /\ tree = MerkleTree(<<>>)
    /\ ret = NoCall
    /\ NoWatcher

(* a join of the channel: the handler passes utils.getAddress of what was  *)
(* published                                                                *)
ChannelJoin ==
    JoinFrom({<<getAddress(Spelled(id, casing, TRUE))>> :
                 id \in Addresses, casing \in {"checksum", "lower", "upper"}})

(* the addresses that are looked up: no address, address 1 as the store or *)
(* the channel may hold it, address 2 in upper case                         *)
Requests ==
    { 0, Spelled(1, "checksum", TRUE), Spelled(1, "lower", FALSE), Spelled(2, "upper", TRUE) }

GetMember ==
    /\ \E requested \in Requests :
          /\ lastOp' = Op("GET member", <<requested>>, 0)
          /\ \E response \in {memberRoute(plasma, now, requested)} :
                ret' = Call("GET member", NoMember, response)
    /\ UNCHANGED <<plasma, now, revenueApplied, seeded, tree,
                   chain, channel, watcher, applied, store, finalPlasma>>

NextRouter == ChannelJoin \/ Commit \/ Tick \/ GetMember

SpecRouter == InitRouter /\ [][NextRouter]_vars

(* a member was looked up in this step *)
Requested ==
    /\ lastOp'.op = "GET member"
    /\ <<lastOp, ret>>' # <<lastOp, ret>>

Requesting == lastOp'.addresses[1]

(* C18: the lookup of an address that is a member of the real-time State   *)
(* and is not in the latest withdrawable block, having joined after it,    *)
(* is answered without an error and with withdrawableEarnings "0"; the     *)
(* lookup of the proof does not make the request fail.                      *)
C18_NewMemberLookup ==
    [][ ( /\ Requested
          /\ HasMember(plasma.members, Requesting)
          /\ ~HasMember(getLatestWithdrawableBlock(plasma, now).members, Requesting) )
            => /\ ret'.ok
               /\ ret'.error = ""
               /\ ret'.value.withdrawableEarnings = toString10(0)
      ]_vars

(* the member of a block that an address denotes, in any spelling *)
Denoted(block, address) ==
    IF HasMember(block.members, address)
    THEN getMember([members |-> block.members], address)
    ELSE EmptyObject

(* C19: whatever path an address came in by and however it was spelled     *)
(* there, its spellings denote one member: no two members of the State     *)
(* have the same address, the lookup of a member finds its earnings in the *)
(* snapshots of the latest and of the latest withdrawable block, and its   *)
(* leaf in the tree of that block.                                          *)
C19_AddressCanonical ==
    [][ /\ \A i, j \in 1..Len(plasma'.members) :
              SameAddress(plasma'.members[i].address, plasma'.members[j].address) => i = j
        /\ (Requested /\ HasMember(plasma.members, Requesting))
              => /\ ret'.value.status \in {0, 200}
                 /\ ret'.value.status = 200 =>
                       /\ ret'.value.recordedEarnings =
                             earningsOr0(Denoted(getLatestBlock(plasma), Requesting))
                       /\ ret'.value.withdrawableEarnings =
                             earningsOr0(Denoted(getLatestWithdrawableBlock(plasma, now), Requesting))
                 /\ ret'.value.status = 0 => ret'.error = "NotAMember"
      ]_vars

----------------------------------------------------------------------------
(* Member lookups while revenue arrives between commits: SpecFrozen.       *)
(* The State moves until the first lookup; every reachable State is looked *)
(* up.                                                                      *)

(* the store holds one member, address 1 in canonical form with earnings *)
InitFrozen ==
    /\ plasma = MonoplasmaState(1, <<[address |-> getAddress(Spelled(1, "lower", TRUE)),
                                      earnings |-> toString10(2)]>>, 0, 0, 0)
    /\ seeded = 2
    /\ now = 0
    /\ revenueApplied = 0
    /\ lastOp = Op("init", <<>>, 0)
    /\ tree = MerkleTree(<<>>)
    /\ ret = NoCall
    /\ NoWatcher

NotLookedUp == ret = NoCall

(* the join of a second member, once *)
FrozenJoin ==
    /\ NotLookedUp
    /\ \E address \in {getAddress(Spelled(2, "upper", TRUE))} :
          /\ ~HasMember(plasma.members, address)
          /\ plasma' = onJoin(plasma, <<address>>, now)
    /\ UNCHANGED <<now, revenueApplied, seeded, lastOp, tree, ret, chain, channel, watcher, applied, store, finalPlasma>>

(* a Transfer to the contract of a positive amount *)
FrozenRevenue ==
    /\ NotLookedUp
    /\ \E amount \in 1..(MaxAmount - 1) :
          /\ revenueApplied + amount <= MaxRevenue
          /\ plasma' = onRevenue(plasma, amount, now)
          /\ revenueApplied' = revenueApplied + amount
    /\ UNCHANGED <<now, seeded, lastOp, tree, ret, chain, channel, watcher, applied, store, finalPlasma>>

(* the operator commits when revenue has arrived since the latest block *)
FrozenCommit ==
    /\ NotLookedUp
    /\ Len(plasma.blocks) < MaxCommits
    /\ getTotalRevenue(plasma) > getLatestBlock(plasma).totalEarnings
    /\ plasma' = onBlockCreated(plasma, getLatestBlock(plasma).blockNumber + 1, now)
    /\ UNCHANGED <<now, revenueApplied, seeded, lastOp, tree, ret, chain, channel, watcher, applied, store, finalPlasma>>

(* time is counted from the first commit *)
FrozenTick ==
    /\ NotLookedUp
    /\ plasma.blocks # <<>>
    /\ now < MaxTime
    /\ now' = now + 1
    /\ UNCHANGED <<plasma, revenueApplied, seeded, lastOp, tree, ret, chain, channel, watcher, applied, store, finalPlasma>>

NextFrozen ==
    FrozenJoin \/ FrozenRevenue \/ FrozenCommit \/ FrozenTick \/ GetMember

SpecFrozen == InitFrozen /\ [][NextFrozen]_vars

(* C40: in every response to a member lookup, withdrawableEarnings is at   *)
(* most recordedEarnings and frozenEarnings is their non-negative          *)
(* difference; in every reachable State each member's earnings in the      *)
(* latest withdrawable block are at most its earnings in the latest block, *)
(* and there is a withdrawable block only when there is a latest block.    *)
C40_FrozenEarningsNonNegative ==
    /\ (ret.op = "GET member" /\ ret.value.status = 200) =>
          /\ parseBN(ret.value.withdrawableEarnings) <= parseBN(ret.value.recordedEarnings)
          /\ parseBN(ret.value.frozenEarnings) >= 0
          /\ parseBN(ret.value.frozenEarnings) =
                parseBN(ret.value.recordedEarnings) - parseBN(ret.value.withdrawableEarnings)
    /\ getLatestWithdrawableBlock(plasma, now) # NoBlock => getLatestBlock(plasma) # NoBlock
    /\ \A i \in 1..Len(plasma.members) :
          parseBN(earningsOr0(find(getLatestWithdrawableBlock(plasma, now).members,
                                   plasma.members[i].address)))
            <= parseBN(earningsOr0(find(getLatestBlock(plasma).members,
                                        plasma.members[i].address)))

(* a member whose earnings grew between the withdrawable and the latest    *)
(* block: part of what is recorded is still frozen                          *)
C40_Witness ==
    /\ ret.op = "GET member"
    /\ ret.value.status = 200
    /\ Has(ret.value, "withdrawableBlockNumber")
    /\ parseBN(ret.value.withdrawableEarnings) > 0
    /\ parseBN(ret.value.frozenEarnings) > 0
    /\ getLatestWithdrawableBlock(plasma, now) # getLatestBlock(plasma)

----------------------------------------------------------------------------
(* A member object driven directly: SpecMember.  ret.member is the object  *)
(* after the last call, ret.value the earnings it had before the call and  *)
(* lastOp the call with its argument.                                       *)

InitMember ==
    /\ plasma = MonoplasmaState(1, <<>>, 0, 0, 0)
    /\ seeded = 0
    /\ now = 0
    /\ revenueApplied = 0
    /\ lastOp = Op("init", <<>>, 0)
    /\ tree = MerkleTree(<<>>)
    /\ \E a \in Addresses, earnings \in 0..MaxAmount :
          ret = Call("new", MonoplasmaMember(a, earnings, TRUE),
                     Result(<<>>, TRUE, "", <<earnings>>))
    /\ NoWatcher

(* member.addRevenue(amount): BN.add of new BN(amount), whatever its sign *)
MemberAddRevenue ==
    /\ \E amount \in (0 - MaxAmount)..MaxAmount :
          /\ ret.member.earnings + amount \in (0 - MaxRevenue * MaxAmount)..(MaxRevenue * MaxAmount)
          /\ ret' = Call("addRevenue", addRevenue(ret.member, amount),
                         Result(<<>>, TRUE, "", <<ret.member.earnings>>))
          /\ lastOp' = Op("addRevenue", <<ret.member.address>>, amount)
    /\ UNCHANGED <<plasma, now, revenueApplied, seeded, tree, chain, channel, watcher, applied, store, finalPlasma>>

MemberSetActive ==
    /\ \E activeState \in BOOLEAN :
          /\ ret' = Call("setActive", setActive(ret.member, activeState),
                         Result(<<>>, TRUE, "", <<ret.member.earnings>>))
          /\ lastOp' = Op("setActive", <<ret.member.address>>, 0)
    /\ UNCHANGED <<plasma, now, revenueApplied, seeded, tree, chain, channel, watcher, applied, store, finalPlasma>>

NextMember == MemberAddRevenue \/ MemberSetActive

SpecMember == InitMember /\ [][NextMember]_vars

(* C24: addRevenue fails for every negative amount and leaves the earnings  *)
(* as they were; for every non-negative amount it succeeds and the          *)
(* earnings grow by exactly the amount.                                     *)
C24_NegativeRevenueRejected ==
    lastOp.op = "addRevenue" =>
        IF lastOp.amount < 0
        THEN ~ret.ok /\ ret.member.earnings = ret.value[1]
        ELSE ret.ok /\ ret.member.earnings = ret.value[1] + lastOp.amount

----------------------------------------------------------------------------
(* The size limits of the build: SpecSize.  An array of members is given   *)
(* by its length, small or close to 2^30, 2^31 and 2^32 (lastOp holds the  *)
(* length as two limbs).                                                    *)

MaxNear == 12

Near(hi) ==
    {<<hi - 1, Limb - k>> : k \in 1..MaxNear} \cup {<<hi, k>> : k \in 0..MaxNear}

Lengths ==
    {len \in {Wide(n) : n \in 1..MaxNear} \cup Near(Limb \div 4)
                 \cup Near(Limb \div 2) \cup Near(Limb) :
        ~Less(MaxArrayLength, len)}

InitSize ==
    /\ plasma = MonoplasmaState(1, <<>>, 0, 0, 0)
    /\ seeded = 0
    /\ now = 0
    /\ revenueApplied = 0
    /\ \E length \in Lengths : lastOp = Op("leafContents", <<>>, length)
    /\ tree = MerkleTree(<<>>)
    /\ ret = NoCall
    /\ NoWatcher

BuildSized ==
    /\ ret' = Call("buildMerkleTree", NoMember, buildMerkleTreeSized(lastOp.amount))
    /\ UNCHANGED <<plasma, now, revenueApplied, seeded, lastOp, tree, chain, channel, watcher, applied, store, finalPlasma>>

NextSize == BuildSized

SpecSize == InitSize /\ [][NextSize]_vars

LeafCount == Add(lastOp.amount, Wide(lastOp.amount[2] % 2))

(* C25: the build rejects every input whose leafCount is above 2^31 and     *)
(* accepts every non-empty input whose leafCount is at most 2^31.           *)
C25_LeafCountBound ==
    ret.op = "buildMerkleTree" =>
        IF Less(<<Limb \div 2, 0>>, LeafCount)
        THEN ~ret.ok /\ ret.error # "never returns"
        ELSE ret.ok

----------------------------------------------------------------------------
(* The handover from playback to live mode: SpecHandover.  The chain has   *)
(* reached block MaxHead when the watcher is constructed on an empty       *)
(* store, so that the playback of start() has blocks to replay; blocks are *)
(* mined and messages published while start() is under way and after it.   *)

MaxLate == 2

InitHandover ==
    /\ plasma = MonoplasmaState(1, <<>>, 0, 0, 0)
    /\ seeded = 0
    /\ now = MaxHead
    /\ revenueApplied = 0
    /\ lastOp = Op("init", <<>>, 0)
    /\ tree = MerkleTree(<<>>)
    /\ ret = NoCall
    /\ \E logs \in BlockLogs(1) :
          chain = <<Block(1, logs)>> \o [n \in 1..(MaxHead - 1) |-> Block(n + 1, <<>>)]
    /\ channel = NoChannel
    /\ watcher = MonoplasmaWatcher
    /\ applied = <<>>
    /\ store = NoStore
    /\ finalPlasma = MonoplasmaState(1, <<>>, 0, 0, 0)

Begun == watcher.pc # "constructed"

LateMine == Begun /\ MineUpTo(MaxHead + MaxLate)

LatePublish == Begun /\ Publish

NextHandover ==
    \/ LateMine \/ LatePublish
    \/ Start \/ Deliver \/ GetBlockNumber \/ Playback \/ LiveBlock

SpecHandover == InitHandover /\ [][NextHandover]_vars

(* how many times a message was applied, and how many times the channel    *)
(* delivered it                                                             *)
TimesApplied(message) ==
    Cardinality({i \in 1..Len(applied) :
                    applied[i].source = "channel" /\ applied[i].item = message})

TimesDelivered(message) ==
    Cardinality({k \in 1..channel.delivered : channel.stream[k] = message})

(* C29: once start() has registered the live handler, every join or part   *)
(* message that the channel has delivered since listen() and that is later *)
(* than the timestamp the State was seeded with (0) has been applied to    *)
(* the real-time State exactly once for each of its deliveries.            *)
C29_MessagesExactlyOnce ==
    watcher.pc = "live" =>
        \A k \in 1..channel.delivered :
            channel.stream[k].timestamp > 0 =>
                TimesApplied(channel.stream[k]) = TimesDelivered(channel.stream[k])

(* how many times the Transfer of block n was applied *)
TransferApplied(n) ==
    Cardinality({i \in 1..Len(applied) :
                    /\ applied[i].source = "chain"
                    /\ applied[i].item.event = "Transfer"
                    /\ applied[i].item.blockNumber = n})

HasTransfer(n) == \E k \in 1..Len(chain[n].logs) : chain[n].logs[k].event = "Transfer"

(* C30: once start() has registered the live handlers and the provider has *)
(* delivered the logs of every block mined since, the Transfer of every    *)
(* block after the seeded checkpoint (block 0) has been applied to the     *)
(* real-time State exactly once.                                            *)
C30_TransfersExactlyOnce ==
    (watcher.pc = "live" /\ watcher.liveBlock > Len(chain)) =>
        \A n \in 1..Len(chain) : HasTransfer(n) => TransferApplied(n) = 1

----------------------------------------------------------------------------
(* Successive playbacks of the second State while messages keep arriving:  *)
(* SpecWindows.  The history `applied` also records, with source "final",  *)
(* what each playback replayed onto the second State, and ret.value the    *)
(* messages that the last playback replayed.                                *)

Messages(items) == SelectSeq(items, IsMessage)

(* playbackUntilBlock(toBlock, finalPlasma) *)
PlaybackWindow ==
    /\ watcher.pc = "live"
    /\ \E toBlock \in 0..Len(chain) :
          \E played \in {playbackUntilBlock(watcher, finalPlasma, chain, toBlock)} :
              /\ finalPlasma' = played.plasma
              /\ applied' = applied \o
                    [i \in 1..Len(played.items) |->
                        [Stamp(chain, played.items[i]) EXCEPT !.source = "final"]]
              /\ lastOp' = Op("playbackUntilBlock", <<>>, toBlock)
              /\ ret' = Call("playbackUntilBlock", NoMember,
                             Result(<<>>, played.outcome # "threw", played.error,
                                    Messages(played.items)))
    /\ UNCHANGED <<plasma, now, revenueApplied, seeded, tree,
                   chain, channel, watcher, store>>

NextWindows ==
    \/ Mine \/ Publish
    \/ Start \/ Deliver \/ GetBlockNumber \/ Playback
    \/ PlaybackWindow

SpecWindows == InitWatcher /\ [][NextWindows]_vars

(* the cached messages with from < timestamp <= to, in the order of the cache *)
InWindow(cache, from, to) ==
    SelectSeq(cache, LAMBDA m : from < m.timestamp /\ m.timestamp <= to)

(* how many times a message was replayed onto the second State *)
TimesReplayed(message) ==
    Cardinality({i \in 1..Len(applied) :
                    applied[i].source = "final" /\ applied[i].item = message})

(* each message received so far that is stamped after the construction of *)
(* the second State (0) and not after its currentTimestamp has been        *)
(* replayed onto it once for each delivery                                  *)
ReplayedOnce ==
    \A k \in 1..channel.delivered :
        ( /\ channel.stream[k].timestamp > 0
          /\ channel.stream[k].timestamp <= finalPlasma.currentTimestamp )
            => TimesReplayed(channel.stream[k]) = TimesDelivered(channel.stream[k])

(* C34: a playback of the second State replays exactly the cached messages *)
(* of its window (the State's currentTimestamp before, exclusive, to the   *)
(* one after, inclusive), and after every step each message received so    *)
(* far that is stamped after the State's construction (0) and not after    *)
(* its currentTimestamp has been replayed onto it once for each delivery.  *)
C34_WindowsPartition ==
    [][ /\ PlaybackRequested =>
              ret'.value = InWindow(watcher.messageCache, finalPlasma.currentTimestamp,
                                    finalPlasma'.currentTimestamp)
        /\ ReplayedOnce'
      ]_vars

----------------------------------------------------------------------------
(* roundUpToPowerOfTwo called directly: SpecPower.  The argument is small, *)
(* or close to 2^30, 2^31 and 2^32, above 2^32 included (lastOp holds it   *)
(* as two limbs).                                                           *)

Inputs ==
    {Wide(n) : n \in 0..MaxNear} \cup Near(Limb \div 4) \cup Near(Limb \div 2) \cup Near(Limb)

InitPower ==
    /\ plasma = MonoplasmaState(1, <<>>, 0, 0, 0)
    /\ seeded = 0
    /\ now = 0
    /\ revenueApplied = 0
    /\ \E x \in Inputs : lastOp = Op("x", <<>>, x)
    /\ tree = MerkleTree(<<>>)
    /\ ret = NoCall
    /\ NoWatcher

RoundUp ==
    /\ ret' = Call("roundUpToPowerOfTwo", NoMember, roundUpToPowerOfTwo(lastOp.amount))
    /\ UNCHANGED <<plasma, now, revenueApplied, seeded, lastOp, tree, chain, channel, watcher, applied, store, finalPlasma>>

NextPower == RoundUp

SpecPower == InitPower /\ [][NextPower]_vars

(* 2^0 .. 2^32 *)
PowersOfTwo ==
    {<<0, TwoToThe(k)>> : k \in 0..15} \cup {<<TwoToThe(k), 0>> : k \in 0..16}

(* C37: for every x from 0 to 2^32 roundUpToPowerOfTwo returns, and what it *)
(* returns is the smallest power of two that is at least x.                 *)
C37_RoundUpTerminates ==
    (ret.op = "roundUpToPowerOfTwo" /\ ~Less(MAX_POW_2, lastOp.amount)) =>
        /\ ret.ok
        /\ ret.value \in PowersOfTwo
        /\ ~Less(ret.value, lastOp.amount)
        /\ \A p \in PowersOfTwo : ~Less(p, lastOp.amount) => ~Less(p, ret.value)

====
